---- MODULE Spec2Model ----
(***************************************************************************)
(* btrfs-image: the metadata dumper (create_metadump) and the restorer     *)
(* (restore_metadump) of btrfs-progs, as a state machine.                  *)
(*                                                                         *)
(* Abstractions.  Byte buffers are sequences of "units" (one unit per      *)
(* tree block, one for the 4 KiB super-block region, one per block of a    *)
(* data extent); every buffer carries its byte length.  A FILE stream is   *)
(* the sequence of the fwrite calls that succeeded, each with its byte     *)
(* offset and length; a read of n bytes at offset p returns the record      *)
(* that was written at [p, p+n), and is misframed otherwise.  A failed     *)
(* fwrite adds nothing to the stream.  64-bit values stay far below 2^31   *)
(* except (u64)-1, which is written U64_MAX and handled by U64Add.         *)
(***************************************************************************)
EXTENDS Integers, Sequences, FiniteSets, TLC

\* ------------------------------------------------------------------------
\* Program constants
\* ------------------------------------------------------------------------
\* 0xbd5c25e27295668b as four 16-bit words, most significant first
HEADER_MAGIC == <<48476, 9698, 29333, 26251>>
MAX_PENDING_SIZE == 256 * 1024
BLOCK_SIZE == 1024
COMPRESS_NONE == 0
COMPRESS_ZLIB == 1
\* sizeof(struct meta_cluster_item): __le64 + __le32, packed
SIZEOF_ITEM == 12
\* sizeof(struct meta_cluster): __le64 + __le64 + __le32 + u8, packed
SIZEOF_CLUSTER == 21
ITEMS_PER_CLUSTER == (BLOCK_SIZE - SIZEOF_CLUSTER) \div SIZEOF_ITEM
BTRFS_SUPER_INFO_OFFSET == 65536
SUPER_SIZE == 4096
EIO == 5
\* (u64)-1
U64_MAX == -1

\* a + b modulo 2^64, for operands that are U64_MAX or small
U64Add(a, b) ==
    IF a = U64_MAX THEN (IF b = 0 THEN U64_MAX ELSE b - 1)
    ELSE IF b = U64_MAX THEN (IF a = 0 THEN U64_MAX ELSE a - 1)
    ELSE a + b

\* ------------------------------------------------------------------------
\* Bounds of the model
\* ------------------------------------------------------------------------
\* worker threads of the dump pool (-t), 0..MaxThreads
MaxThreads == 2
\* extent records of the long layout (enough to fill one cluster and start
\* a second one)
LongExtents == 84
\* extent records of the short layout
ShortExtents == 6
\* the one fwrite call that fails is among the first MaxWriteFail calls
MaxWriteFail == 4

\* ------------------------------------------------------------------------
\* The source filesystem (what the external filesystem reader returns)
\* ------------------------------------------------------------------------
NodeSizes == {4096}

\* first logical address of the tree blocks, of the log tree and of the
\* free-space-cache data extents in the modelled images
ExtBase == 256 * 4096
LogRootAddr == 512 * 4096
LogLeafAddr == 513 * 4096
CacheBase == 768 * 4096

\* a layout is one source image: n extent-tree records spaced stride
\* blocks apart, every dataMod-th one a data extent (0: none), a log tree
\* ("none", "tree", or "unset": log root recorded but tree not set up),
\* and the first `cache` free-space-cache file extents
ShortLayout == [name |-> "short", n |-> ShortExtents, stride |-> 1,
                dataMod |-> 4, log |-> "tree", cache |-> 4]
TinyLayout  == [name |-> "tiny", n |-> 2, stride |-> 2,
                dataMod |-> 0, log |-> "unset", cache |-> 0]
LongLayout  == [name |-> "long", n |-> LongExtents, stride |-> 2,
                dataMod |-> 0, log |-> "none", cache |-> 1]
\* a filesystem with skinny metadata: the extent tree records its tree
\* blocks as METADATA_ITEM keys, whose offset is the block's level
SkinnyLayout == [name |-> "skinny", n |-> 3, stride |-> 1,
                 dataMod |-> 0, log |-> "none", cache |-> 0]

ChunkStripe(devid, off) ==
    [devid |-> devid, dev_uuid |-> "dev", offset |-> off]

\* a two-stripe (DUP) chunk record, its first stripe on a second device
DupChunk(type, off) ==
    [length |-> 8 * 1024 * 1024, owner |-> "EXTENT_TREE",
     stripe_len |-> 64 * 1024, type |-> type,
     num_stripes |-> 2, sub_stripes |-> 1,
     stripes |-> <<ChunkStripe(2, off + 4096), ChunkStripe(1, off + 8192)>>]

\* the super-block as it sits on the source device
SuperBlock(ns) ==
    [kind |-> "super", bytenr |-> BTRFS_SUPER_INFO_OFFSET, fsid |-> "fsid",
     csum |-> "-", csum_tail |-> "zero", flags |-> {}, leafsize |-> ns,
     devid |-> 1, dev_uuid |-> "dev",
     sys_array |-> << [key |-> [objectid |-> 256, type |-> "CHUNK_ITEM",
                                offset |-> 0],
                       chunk |-> DupChunk({"SYSTEM", "DUP"}, 0)] >>]

LeafItems(k, la) ==
    CASE k = 0 -> << [type |-> "CSUM", offset |-> la, data |-> "sums"],
                     [type |-> "EXTENT_DATA", offset |-> 0,
                      data |-> [extent_type |-> "INLINE", inline |-> "text"]],
                     [type |-> "EXTENT_DATA", offset |-> 4096,
                      data |-> [extent_type |-> "REG", inline |-> "none"]] >>
      [] k = 1 -> << [type |-> "DEV_ITEM", offset |-> 1, data |-> "dev"],
                     [type |-> "CHUNK_ITEM", offset |-> la,
                      data |-> DupChunk({"METADATA", "DUP"}, la)] >>
      [] k = 2 -> << >>
      [] k = 3 -> << [type |-> "PTR", offset |-> la + 4096, data |-> "ptr"] >>
      [] OTHER -> << [type |-> "EXTENT_ITEM", offset |-> 4096,
                      data |-> "refs"] >>

\* the raw tree block at logical address la, before masking: its kind
\* (fs leaf, chunk-tree leaf, empty block, node, extent-tree leaf) varies
\* with the address; slack is the unused space of the block.  csum is
\* bytes [0, 4) of the checksum field, csum_tail its bytes [4, 32), which
\* no checksum covers and which some blocks carry non-zero
RawBlock(la) ==
    LET k == (la \div 4096) % 5 IN
    [kind |-> "block", bytenr |-> la, fsid |-> "fsid", csum |-> "-",
     csum_tail |-> IF (la \div 4096) % 3 = 1 THEN "junk" ELSE "zero",
     owner |-> IF k = 1 THEN "CHUNK_TREE"
               ELSE IF k = 4 THEN "EXTENT_TREE" ELSE "FS_TREE",
     level |-> IF k = 3 THEN 1 ELSE 0,
     items |-> LeafItems(k, la),
     slack |-> "junk"]

\* the log root tree's node: a leaf whose root item points at one log leaf
LogRootBlock ==
    [kind |-> "block", bytenr |-> LogRootAddr, fsid |-> "fsid",
     csum |-> "-", csum_tail |-> "zero", owner |-> "LOG_TREE", level |-> 0,
     items |-> << [type |-> "ROOT_ITEM", offset |-> 0,
                   data |-> [bytenr |-> LogLeafAddr]] >>,
     slack |-> "junk"]

\* crc32c over bytes [32, len) followed by btrfs_csum_final: a function of
\* everything in the block but the 32 bytes of the checksum field
Crc32c(b) == [crc32c |-> [b EXCEPT !.csum = "-", !.csum_tail = "-"]]

\* csum_block(buf, len): the first BTRFS_CRC32_SIZE bytes of the field
\* are written, the other 28 stay as they are
csum_block(b) == [b EXCEPT !.csum = Crc32c(b)]

\* read_tree_block(root, la, blocksize, 0), when it succeeds: the block on
\* the device, which carries the checksum of its raw contents
FsBlock(la, ns) ==
    csum_block(IF la = BTRFS_SUPER_INFO_OFFSET THEN SuperBlock(ns)
               ELSE IF la = LogRootAddr THEN LogRootBlock
               ELSE RawBlock(la))

\* one block of a data extent, read at its physical offset
DataUnit(la) == [kind |-> "data", bytenr |-> la]

\* byte length of one buffer unit
UnitLen(u, ns) == IF u.kind = "super" THEN SUPER_SIZE
                  ELSE IF u.kind = "data" THEN 4096 ELSE ns

\* ------------------------------------------------------------------------
\* Block masker
\* ------------------------------------------------------------------------
ZeroItem(it) ==
    IF it.type = "CSUM" THEN [it EXCEPT !.data = "zero"]
    ELSE IF it.type # "EXTENT_DATA" THEN it
    ELSE IF it.data.extent_type # "INLINE" THEN it
    ELSE [it EXCEPT !.data.inline = "zero"]

zero_items(items) == [i \in 1..Len(items) |-> ZeroItem(items[i])]

\* a masker that takes the checksum before it zeroes
copy_buffer_csum_first(src) ==
    IF src.bytenr = BTRFS_SUPER_INFO_OFFSET THEN src
    ELSE [csum_block(src) EXCEPT
             !.slack = "zero",
             !.items = IF src.level = 0 THEN zero_items(src.items)
                       ELSE src.items]

\* copy_buffer(dst, src): the copy of the block with its unused space,
\* checksum items and inline extents zeroed and its checksum recomputed;
\* the super-block is copied as it is
copy_buffer(src) ==
    IF src.bytenr = BTRFS_SUPER_INFO_OFFSET THEN src
    ELSE IF Len(src.items) = 0
         THEN csum_block([src EXCEPT !.slack = "zero"])
    ELSE IF src.level = 0
         THEN csum_block([src EXCEPT !.slack = "zero",
                                     !.items = zero_items(src.items)])
    ELSE csum_block([src EXCEPT !.slack = "zero"])

\* ------------------------------------------------------------------------
\* Codec (zlib), opaque: the stored form wraps the plain bytes
\* ------------------------------------------------------------------------
PlainBuf(units, len) ==
    [kind |-> "plain", units |-> units, len |-> len, rawlen |-> len]
JunkBuf(len) == [kind |-> "junk", units |-> << >>, len |-> len, rawlen |-> 0]
Freed == [kind |-> "freed", units |-> << >>, len |-> 0, rawlen |-> 0]

\* zlib's compressBound(sourceLen)
compressBound(n) ==
    n + (n \div 4096) + (n \div 16384) + (n \div 33554432) + 13

\* the deflated length of a buffer: deterministic, well below the plain
\* length and not aligned to BLOCK_SIZE
CompLen(buf) ==
    (buf.len \div 16) + 19 +
    (IF buf.units = << >> THEN 0 ELSE (buf.units[1].bytenr \div 4096) % 7)

\* compress2(dest, &destLen, orig, size, level) into a compressBound(size)
\* buffer; `fails` is whether zlib returns other than Z_OK
compress2(buf, size, fails) ==
    IF fails
    THEN [ok |-> FALSE, buffer |-> JunkBuf(compressBound(size)),
          bufsize |-> compressBound(size)]
    ELSE [ok |-> TRUE,
          buffer |-> [kind |-> "zlib", units |-> buf.units,
                      len |-> CompLen(buf), rawlen |-> buf.len],
          bufsize |-> CompLen(buf)]

\* uncompress(buffer, &size, src, srclen) into a buffer of `cap` bytes
uncompress(buf, cap) ==
    IF buf.kind = "zlib" /\ buf.rawlen <= cap
    THEN [ok |-> TRUE, buffer |-> PlainBuf(buf.units, buf.rawlen),
          size |-> buf.rawlen]
    ELSE [ok |-> FALSE, buffer |-> JunkBuf(cap), size |-> cap]

\* ------------------------------------------------------------------------
\* Scenarios: the source image, the command line and the injected faults
\* ------------------------------------------------------------------------
Layouts == {TinyLayout, ShortLayout, LongLayout, SkinnyLayout}

\* -c: 0 or a zlib level; -t: 0 (not given) or 1..MaxThreads.  main()
\* starts at least one thread when compression is on.
CmdLines ==
    {c \in [compress_level : {0, 6}, num_threads : 0..MaxThreads] :
        c.compress_level > 0 => c.num_threads >= 1}

\* faults: the ordinal of the fwrite call that fails (0: none), the
\* addresses the filesystem reader cannot read, the run start whose
\* compression fails (0: none)
Faults ==
    {f \in [wfail : 0..MaxWriteFail,
            bad : {{}, {ExtBase + 4096}, {LogLeafAddr}, {CacheBase}},
            cfail : {0, ExtBase}] :
        Cardinality({x \in {"w", "b", "c"} :
                        \/ x = "w" /\ f.wfail # 0
                        \/ x = "b" /\ f.bad # {}
                        \/ x = "c" /\ f.cfail # 0}) <= 1}

Scenarios ==
    {sc \in [layout : Layouts, ns : NodeSizes, cmd : CmdLines,
             fault : Faults] :
        /\ sc.layout.name = "long" =>
              /\ sc.cmd.num_threads <= 1
              /\ sc.fault.bad = {} /\ sc.fault.wfail <= 1
        /\ sc.layout.name = "skinny" =>
              /\ sc.cmd.num_threads <= 1
              /\ sc.fault.bad = {} /\ sc.fault.wfail = 0
              /\ sc.fault.cfail = 0
        /\ sc.fault.cfail # 0 => sc.cmd.compress_level > 0}

NoFault == [wfail |-> 0, bad |-> {}, cfail |-> 0]

\* the dumps whose output is then restored: those of one dump worker at
\* most (the stream does not depend on the number of workers)
RestoreScenarios == {sc \in Scenarios : sc.cmd.num_threads <= 1}

\* the restores started on the output of dump sc, damaged as c, in mode
\* old, on a target of size t: a block device takes the intact input
\* only; of the long layout the fault-free dumps are restored, in normal
\* mode, the input intact or with a damaged header, to a block device the
\* uncompressed one only
RestoreRuns(sc, c, old, t) ==
    /\ t # 0 => c.kind = "none"
    /\ sc.layout.name = "long" =>
          /\ sc.fault = NoFault
          /\ ~old
          /\ c.kind \in {"none", "magic", "bytenr"}
          /\ t # 0 => sc.cmd.compress_level = 0
          /\ sc.cmd.num_threads = IF sc.cmd.compress_level > 0 THEN 1 ELSE 0

\* ------------------------------------------------------------------------
\* What the dumper driver's tree walks visit
\* ------------------------------------------------------------------------
AddStep(start, size, data) ==
    [op |-> "add", start |-> start, size |-> size, data |-> data, ret |-> 0,
     msg |-> "-"]
FailStep(ret, msg) ==
    [op |-> "fail", start |-> 0, size |-> 0, data |-> 0, ret |-> ret,
     msg |-> msg]

\* the i-th record of the extent tree: an EXTENT_ITEM (offset: the length)
\* whose flags mark a tree block, or a data extent; with skinny metadata
\* a METADATA_ITEM (offset: the level of the tree block)
ExtentRec(L, ns, i) ==
    LET la == ExtBase + (i - 1) * L.stride * ns IN
    IF L.name = "skinny"
    THEN [objectid |-> la, type |-> "METADATA_ITEM",
          offset |-> RawBlock(la).level, tree |-> TRUE]
    ELSE [objectid |-> la, type |-> "EXTENT_ITEM", offset |-> ns,
          tree |-> (L.dataMod = 0 \/ i % L.dataMod # 0)]

\* copy_log_blocks(root, eb, metadump, log_root_tree); a step list that
\* ends at the first failure
RECURSIVE copy_log_blocks(_, _, _, _)
RECURSIVE LogChildren(_, _, _, _, _)
LogChildren(eb, i, ns, bad, log_root_tree) ==
    IF i > Len(eb.items) THEN << >>
    ELSE LET it == eb.items[i]
             rest == LogChildren(eb, i + 1, ns, bad, log_root_tree)
         IN IF eb.level = 0 /\ it.type # "ROOT_ITEM" THEN rest
            ELSE LET bytenr == IF eb.level = 0 THEN it.data.bytenr
                               ELSE it.offset
                     sub == IF bytenr \in bad
                            THEN <<FailStep(-EIO,
                                     IF eb.level = 0
                                     THEN "Error reading log root block"
                                     ELSE "Error reading log block")>>
                            ELSE copy_log_blocks(
                                     FsBlock(bytenr, ns), ns, bad,
                                     IF eb.level = 0 THEN FALSE
                                     ELSE log_root_tree)
                 IN IF sub # << >> /\ sub[Len(sub)].op = "fail" THEN sub
                    ELSE sub \o rest
copy_log_blocks(eb, ns, bad, log_root_tree) ==
    <<AddStep(eb.bytenr, ns, 0)>> \o
    (IF eb.level = 0 /\ ~log_root_tree THEN << >>
     ELSE LogChildren(eb, 1, ns, bad, log_root_tree))

copy_log_trees(L, ns, bad) ==
    IF L.log = "none" THEN << >>
    ELSE IF L.log = "unset"
         THEN <<FailStep(-EIO, "Error copying tree log, it wasn't setup")>>
    ELSE copy_log_blocks(FsBlock(LogRootAddr, ns), ns, bad, TRUE)

\* the regular file extents of the tree root (free-space caches): two
\* adjacent ones and one larger than MAX_PENDING_SIZE
CacheExtent(i) ==
    CASE i = 1 -> [bytenr |-> CacheBase, num_bytes |-> 8192]
      [] i = 2 -> [bytenr |-> CacheBase + 8192, num_bytes |-> 4096]
      [] i = 4 -> [bytenr |-> CacheBase + 3 * 65536 + MAX_PENDING_SIZE + 4096,
                   num_bytes |-> 4096]
      [] OTHER -> [bytenr |-> CacheBase + i * 65536,
                   num_bytes |-> MAX_PENDING_SIZE + 4096]

copy_space_cache(L) ==
    [i \in 1..L.cache |->
        AddStep(CacheExtent(i).bytenr, CacheExtent(i).num_bytes, 1)]

\* ------------------------------------------------------------------------
\* State
\* ------------------------------------------------------------------------
VARIABLES
    scen,           \* the scenario (fixed by Init)
    \* create_metadump
    dpc,            \* "super", "extents", "log", "cache", "final",
                    \* "destroy", "join", "done"
    didx,           \* position in the current walk
    scan_bytenr,    \* the extent scan's bytenr: first byte not yet covered
    call,           \* the call that waits in write_buffers, or NoCall
    err,            \* create_metadump's err
    msgs,           \* the diagnostics written to stderr so far
    dret,           \* create_metadump's return value
    \* struct metadump_struct
    pending_start, pending_size, md_data,
    header,         \* md->cluster->header
    citems,         \* md->cluster->items[]
    num_items, num_ready, md_done,
    list,           \* md->list: ids of the queued work
    ordered,        \* md->ordered: ids in submission order
    work,           \* every async_work allocated so far, by id
    wpc, witem,     \* each dump_worker's position and the work it holds
    out,            \* the output stream
    nfwrite         \* fwrite calls made so far

dumpvars == <<scen, dpc, didx, scan_bytenr, call, err, msgs, dret, pending_start, pending_size,
              md_data, header, citems, num_items, num_ready, md_done, list,
              ordered, work, wpc, witem, out, nfwrite>>

VARIABLES
    rcorrupt,       \* how the input differs from the dump's output
    rtarget,        \* size of the target block device, 0: a regular file
    rin,            \* the input stream
    rpos,           \* read position of the input stream
    rpc,            \* "off", "read", "item", "wait", "abort", "destroy",
                    \* "join", "done"
    rbytenr,        \* restore_metadump's bytenr: the expected header offset
    rret,           \* restore_metadump's ret
    rmsgs,          \* the diagnostics written to stderr so far
    cluster,        \* the cluster block read last
    ridx,           \* add_cluster's i (from 1)
    rnext,          \* add_cluster's bytenr
    mdres,          \* struct mdrestore_struct
    rlist,          \* mdres->list
    rwpc, rwitem,   \* each restore_worker's position and the work it holds
    rwerr,          \* each restore_worker's err
    image,          \* the target: logical address -> the unit written there
    pwrites         \* the positioned writes issued, in order

rvars == <<rcorrupt, rtarget, rin, rpos, rpc, rbytenr, rret, rmsgs, cluster, ridx,
           rnext, mdres, rlist, rwpc, rwitem, rwerr, image, pwrites>>

\* the CRC helper (btrfs-crc), a program of its own
VARIABLES
    cpc,            \* "off", "test", "step", "done"
    clength,        \* -l: the length of the candidate strings
    cchecksum,      \* -c: the target
    cbuf,           \* buf[0..length-1] and, at index length, the byte that
                    \* follows the allocation
    ci,             \* i
    cprinted,       \* the strings printed so far
    ctests,         \* the number of candidates tested so far
    cover           \* an access to buf outside [0, length) has happened

cvars == <<cpc, clength, cchecksum, cbuf, ci, cprinted, ctests, cover>>

Workers == 1..scen.cmd.num_threads

NoCall == [fn |-> "none", phase |-> "-", start |-> 0, size |-> 0, data |-> 0]

\* ------------------------------------------------------------------------
\* Output stream
\* ------------------------------------------------------------------------
StreamLen(st) ==
    IF st = << >> THEN 0 ELSE st[Len(st)].off + st[Len(st)].len

HdrRec(h, items) ==
    [kind |-> "hdr", off |-> 0, len |-> BLOCK_SIZE, hdr |-> h,
     items |-> items, id |-> 0, data |-> Freed]
BufRec(id, buffer, bufsize) ==
    [kind |-> "buf", off |-> 0, len |-> bufsize, hdr |-> "-",
     items |-> << >>, id |-> id, data |-> buffer]
ZeroRec(size) ==
    [kind |-> "zero", off |-> 0, len |-> size, hdr |-> "-",
     items |-> << >>, id |-> 0, data |-> Freed]

\* ------------------------------------------------------------------------
\* Dump engine
\* ------------------------------------------------------------------------
\* a cluster initialisation that ignores `start`
meta_cluster_init_at_zero(start) ==
    [magic |-> HEADER_MAGIC, bytenr |-> 0, nritems |-> 0,
     compress |-> IF scen.cmd.compress_level > 0
                  THEN COMPRESS_ZLIB ELSE COMPRESS_NONE]

meta_cluster_init(start) ==
    [magic |-> HEADER_MAGIC, bytenr |-> start, nritems |-> 0,
     compress |-> IF scen.cmd.compress_level > 0
                  THEN COMPRESS_ZLIB ELSE COMPRESS_NONE]

\* the per-block loop of flush_pending: read, mask and copy each block of
\* a metadata run.  `size` counts down by blocksize; a remainder smaller
\* than a block makes copy_buffer write past the run buffer (overrun).
RECURSIVE MetaUnits(_, _, _, _)
MetaUnits(start, size, blocksize, bad) ==
    IF size = 0 THEN [ret |-> 0, units |-> << >>, overrun |-> FALSE]
    ELSE IF start \in bad
         THEN [ret |-> -EIO, units |-> << >>, overrun |-> FALSE]
    ELSE IF size < blocksize
         THEN [ret |-> -EIO, units |-> << >>, overrun |-> TRUE]
    ELSE LET r == MetaUnits(start + blocksize, size - blocksize,
                            blocksize, bad)
         IN [r EXCEPT !.units =
                <<copy_buffer(FsBlock(start, blocksize))>> \o r.units]

\* read_data_extent: the raw bytes of a data run, block by block
read_data_extent(start, size, bad) ==
    LET n == size \div 4096 IN
    IF \E i \in 0..(n - 1) : start + i * 4096 \in bad
    THEN [ret |-> -EIO, units |-> << >>, overrun |-> FALSE]
    ELSE [ret |-> 0, units |-> [i \in 1..n |-> DataUnit(start + (i - 1) * 4096)],
          overrun |-> FALSE]

\* list_add in place of list_add_tail
OrderedAddHead(ord, id) == <<id>> \o ord

\* list_add_tail(&async->ordered, &md->ordered)
OrderedAdd(ord, id) == Append(ord, id)

\* flush_pending(md, done) up to its return or its call of write_buffers.
\* write: write_buffers is called (with a non-empty ordered list: the
\* driver then waits for the workers); reinit: write_buffers found the
\* list empty, returned 0 with *next = 0, and the cluster was initialised.
\* a cluster that is written by the final flush only
cluster_never_full(n) == FALSE

\* the test of flush_pending on the cluster in progress:
\* md->num_items >= ITEMS_PER_CLUSTER
cluster_full(n) == n >= ITEMS_PER_CLUSTER

FlushCalc(final) ==
    LET unchanged ==
            [ret |-> 0, write |-> FALSE, reinit |-> FALSE,
             pstart |-> pending_start, psize |-> pending_size,
             num_items |-> num_items, num_ready |-> num_ready,
             list |-> list, ordered |-> ordered, work |-> work]
        mat == IF md_data # 0
               THEN read_data_extent(pending_start, pending_size,
                                     scen.fault.bad)
               ELSE MetaUnits(pending_start, pending_size, scen.ns,
                              scen.fault.bad)
        id == Len(work) + 1
        async == [start |-> pending_start, size |-> pending_size,
                  bufsize |-> pending_size,
                  buffer |-> PlainBuf(mat.units, pending_size),
                  error |-> 0]
        zl == scen.cmd.compress_level > 0
        sub == IF pending_size = 0 THEN unchanged
               ELSE [unchanged EXCEPT
                       !.pstart = U64_MAX, !.psize = 0,
                       !.work = Append(work, async),
                       !.ordered = OrderedAdd(ordered, id),
                       !.num_items = num_items + 1,
                       !.list = IF zl THEN Append(list, id) ELSE list,
                       !.num_ready = IF zl THEN num_ready
                                     ELSE num_ready + 1]
    IN  IF pending_size # 0 /\ mat.ret # 0
        THEN [unchanged EXCEPT !.ret = mat.ret]
        ELSE IF pending_size = 0 /\ ~final THEN unchanged
        ELSE IF ~(cluster_full(sub.num_items) \/ final) THEN sub
        ELSE IF sub.ordered = << >>
             THEN [sub EXCEPT !.reinit = TRUE, !.num_items = 0,
                              !.num_ready = 0]
        ELSE [sub EXCEPT !.write = TRUE]

\* an index that records the uncompressed size
IndexSizePlain(async) == async.size

\* the size recorded in the index for a work item
IndexSize(async) == async.bufsize

\* sum of s[lo..hi], by halves
RECURSIVE RangeSum(_, _, _)
RangeSum(s, lo, hi) ==
    IF lo > hi THEN 0
    ELSE IF lo = hi THEN s[lo]
    ELSE LET mid == (lo + hi) \div 2
         IN RangeSum(s, lo, mid) + RangeSum(s, mid + 1, hi)

\* does the k-th fwrite call of the run fail?
FwriteFails(k) == k = scen.fault.wfail

\* fwrite(ptr, len, 1, md->out) as the (f.n + 1)-th call: appends the
\* record at the end of the stream, or fails and appends nothing
Fwrite(f, rec) ==
    IF FwriteFails(f.n + 1)
    THEN [out |-> f.out, n |-> f.n + 1, ok |-> FALSE]
    ELSE [out |-> Append(f.out, [rec EXCEPT !.off = StreamLen(f.out)]),
          n |-> f.n + 1, ok |-> TRUE]

\* the "write buffers" loop of write_buffers over the ordered list, from
\* stream state f: every item adds its bufsize to bytenr; items are
\* written with one fwrite each until one fails, the rest are only freed
WritePayloads(ids, f, bytenr0) ==
    LET n == Len(ids)
        sizes == [j \in 1..n |-> work[ids[j]].bufsize]
        failing == {j \in 1..n : FwriteFails(f.n + j)}
        fj == IF failing = {} THEN 0
              ELSE CHOOSE j \in failing : \A k \in failing : j <= k
        m == IF fj = 0 THEN n ELSE fj - 1
        base == StreamLen(f.out)
        recs == [j \in 1..m |->
                    [BufRec(ids[j], work[ids[j]].buffer, sizes[j])
                        EXCEPT !.off = base + RangeSum(sizes, 1, j - 1)]]
    IN  [f |-> [out |-> f.out \o recs, n |-> IF fj = 0 THEN f.n + n
                                             ELSE f.n + fj],
         err |-> IF fj = 0 THEN 0 ELSE -EIO,
         bytenr |-> U64Add(bytenr0, RangeSum(sizes, 1, n))]

\* padding by the remainder instead of its complement
PadSizeRemainder(bytenr) == bytenr % BLOCK_SIZE

\* the zero padding write_buffers appends after payloads ending at bytenr
PadSize(bytenr) == BLOCK_SIZE - (bytenr % BLOCK_SIZE)

\* write_buffers(md, &next) once num_items <= num_ready
WriteBuffersCalc ==
    LET n == Len(ordered)
        index == [i \in 1..Len(citems) |->
                    IF i <= n
                    THEN [bytenr |-> work[ordered[i]].start,
                          size |-> IndexSize(work[ordered[i]])]
                    ELSE citems[i]]
        newitems == IF n <= Len(citems) THEN index
                    ELSE [i \in 1..n |->
                            [bytenr |-> work[ordered[i]].start,
                             size |-> IndexSize(work[ordered[i]])]]
        hdr == [header EXCEPT !.nritems = n]
        h == Fwrite([out |-> out, n |-> nfwrite], HdrRec(hdr, newitems))
        p == WritePayloads(ordered, [out |-> h.out, n |-> h.n],
                           U64Add(hdr.bytenr, BLOCK_SIZE))
        pad == p.err = 0 /\ p.bytenr % BLOCK_SIZE # 0
        z == IF pad THEN Fwrite(p.f, ZeroRec(PadSize(p.bytenr)))
             ELSE [out |-> p.f.out, n |-> p.f.n, ok |-> TRUE]
        freed == [i \in 1..Len(work) |->
                    IF \E j \in 1..n : ordered[j] = i
                    THEN [work[i] EXCEPT !.buffer = Freed] ELSE work[i]]
    IN  IF ~h.ok
        THEN [ret |-> -EIO, next |-> 0, header |-> hdr, citems |-> newitems,
              out |-> h.out, nfwrite |-> h.n, ordered |-> ordered,
              work |-> work]
        ELSE [ret |-> IF z.ok THEN p.err ELSE -EIO,
              next |-> IF pad THEN p.bytenr + PadSize(p.bytenr)
                       ELSE p.bytenr,
              header |-> hdr, citems |-> newitems,
              out |-> z.out, nfwrite |-> z.n, ordered |-> << >>,
              work |-> freed]

\* ------------------------------------------------------------------------
\* Dumper driver: create_metadump
\* ------------------------------------------------------------------------
Plan(p) ==
    CASE p = "super" ->
            <<AddStep(BTRFS_SUPER_INFO_OFFSET, SUPER_SIZE, 0)>>
      [] p = "log" -> copy_log_trees(scen.layout, scen.ns, scen.fault.bad)
      [] p = "cache" -> copy_space_cache(scen.layout)
      [] OTHER -> << >>

NextPhase(p) ==
    CASE p = "super" -> "extents"
      [] p = "extents" -> "log"
      [] p = "log" -> "cache"
      [] OTHER -> "final"

\* steps of phase p: the records of the extent tree, or the walk's steps
PhaseLen(p) == IF p = "extents" THEN scen.layout.n ELSE Len(Plan(p))

RECURSIVE FirstPos(_)
FirstPos(p) ==
    IF p = "final" THEN [pc |-> "final", idx |-> 0]
    ELSE IF PhaseLen(p) > 0 THEN [pc |-> p, idx |-> 1]
    ELSE FirstPos(NextPhase(p))

\* where the driver goes after step i of phase p succeeded
After(p, i) ==
    IF i < PhaseLen(p) THEN [pc |-> p, idx |-> i + 1]
    ELSE FirstPos(NextPhase(p))

\* the diagnostic printed when add_extent fails in phase p
AddFailed(p) ==
    CASE p = "super" -> "Error adding metadata"
      [] p = "extents" -> "Error adding block"
      [] p = "log" -> "Error adding metadata block"
      [] OTHER -> "Error adding space cache blocks"

\* what create_metadump does with a failed step of phase p: every phase
\* but the free-space-cache walk stores the code in err; all go to `out:`
StepFailed(p, ret, msg) ==
    /\ dpc' = "final"
    /\ didx' = 0
    /\ err' = IF p = "cache" THEN err ELSE ret
    /\ msgs' = msgs \cup {msg}

StepDone(p) ==
    /\ dpc' = After(p, didx).pc
    /\ didx' = After(p, didx).idx
    /\ err' = err
    /\ msgs' = msgs

\* the return of flush_pending (value ret, pending run ps/psz) into the
\* call c: the rest of add_extent, or the end of create_metadump's flush
Finish(c, ret, ps, psz) ==
    /\ call' = NoCall
    /\ IF c.fn = "final"
       THEN /\ dpc' = "destroy"
            /\ didx' = 0
            /\ err' = err
            /\ msgs' = IF ret # 0 THEN msgs \cup {"Error flushing pending"}
                       ELSE msgs
            /\ pending_start' = ps
            /\ pending_size' = psz
            /\ md_data' = md_data
       ELSE IF ret # 0
       THEN /\ StepFailed(c.phase, ret, AddFailed(c.phase))
            /\ pending_start' = ps
            /\ pending_size' = psz
            /\ md_data' = md_data
       ELSE /\ StepDone(c.phase)
            /\ pending_start' = c.start
            /\ pending_size' = U64Add(psz, c.size)
            /\ md_data' = c.data

\* the materialise loop of flush_pending copies a block past the end of
\* the run buffer: a run of tree blocks whose length is no multiple of
\* the block size
FlushOverruns ==
    /\ pending_size # 0 /\ md_data = 0
    /\ MetaUnits(pending_start, pending_size, scen.ns,
                 scen.fault.bad).overrun

\* flush_pending(md, final) called from c.  After a copy past the run
\* buffer (undefined behaviour) the loop, its counter wrapped, goes on
\* until a block read fails, or the process dies of the damaged heap
StepFlush(c, final) ==
    \/ LET f == FlushCalc(final) IN
       /\ num_items' = f.num_items
       /\ num_ready' = f.num_ready
       /\ list' = f.list
       /\ ordered' = f.ordered
       /\ work' = f.work
       /\ header' = IF f.reinit THEN meta_cluster_init(0) ELSE header
       /\ IF f.write
          THEN /\ call' = c
               /\ pending_start' = f.pstart
               /\ pending_size' = f.psize
               /\ UNCHANGED <<dpc, didx, err, msgs, md_data>>
          ELSE Finish(c, f.ret, f.pstart, f.psize)
       /\ UNCHANGED <<scen, dret, citems, md_done, wpc, witem, out, nfwrite>>
    \/ /\ FlushOverruns
       /\ dpc' = "crashed"
       /\ UNCHANGED <<scen, didx, call, err, msgs, dret, pending_start,
                      pending_size, md_data, header, citems, num_items,
                      num_ready, md_done, list, ordered, work, wpc, witem,
                      out, nfwrite>>

\* a loop iteration that adds nothing
PassOver(p) ==
    /\ StepDone(p)
    /\ UNCHANGED <<scen, call, dret, pending_start, pending_size,
                   md_data, header, citems, num_items, num_ready,
                   md_done, list, ordered, work, wpc, witem, out,
                   nfwrite>>

\* an add_extent that does not look at the cap
NeedFlushNoCap(start, size, data) ==
    \/ md_data # data
    \/ U64Add(pending_start, pending_size) # start

\* the test of add_extent: must the pending run be flushed first?
NeedFlush(start, size, data) ==
    \/ md_data # data
    \/ U64Add(pending_size, size) > MAX_PENDING_SIZE
    \/ U64Add(pending_start, pending_size) # start

\* add_extent(start, size, md, data), called in phase p
add_extent(p, start, size, data) ==
    IF NeedFlush(start, size, data)
    THEN StepFlush([fn |-> "add", phase |-> p, start |-> start,
                    size |-> size, data |-> data], FALSE)
    ELSE /\ pending_size' = U64Add(pending_size, size)
         /\ md_data' = data
         /\ StepDone(p)
         /\ UNCHANGED <<scen, call, dret, pending_start, header, citems,
                        num_items, num_ready, md_done, list, ordered, work,
                        wpc, witem, out, nfwrite>>

\* one step of a walk: an extent to add, or a failure of the walk itself
WalkStep(p) ==
    /\ dpc = p
    /\ call = NoCall
    /\ UNCHANGED scan_bytenr
    /\ LET st == Plan(p)[didx] IN
       IF st.op = "add" THEN add_extent(p, st.start, st.size, st.data)
       ELSE /\ StepFailed(p, st.ret, st.msg)
            /\ UNCHANGED <<scen, call, dret, pending_start, pending_size,
                           md_data, header, citems, num_items, num_ready,
                           md_done, list, ordered, work, wpc, witem, out,
                           nfwrite>>

\* ret = add_extent(BTRFS_SUPER_INFO_OFFSET, 4096, &metadump, 0)
DumpSuper ==
    /\ dpc = "super"
    /\ WalkStep("super")
    /\ UNCHANGED rvars
    /\ UNCHANGED cvars

\* one iteration of the scan loop over the extent tree
DumpExtent ==
    /\ dpc = "extents"
    /\ call = NoCall
    /\ LET key == ExtentRec(scen.layout, scen.ns, didx) IN
       IF \/ key.objectid < scan_bytenr
          \/ key.type \notin {"EXTENT_ITEM", "METADATA_ITEM"}
       THEN /\ PassOver("extents")
            /\ UNCHANGED scan_bytenr
       ELSE LET num_bytes == IF key.type = "METADATA_ITEM"
                             THEN key.offset ELSE scen.ns
            IN /\ scan_bytenr' = key.objectid + num_bytes
               /\ IF key.tree
                  THEN add_extent("extents", key.objectid, num_bytes, 0)
                  ELSE PassOver("extents")
    /\ UNCHANGED rvars
    /\ UNCHANGED cvars

\* one add_extent of copy_log_trees, or its failure
DumpLog ==
    /\ dpc = "log"
    /\ WalkStep("log")
    /\ UNCHANGED rvars
    /\ UNCHANGED cvars

\* one add_extent of copy_space_cache
DumpCache ==
    /\ dpc = "cache"
    /\ WalkStep("cache")
    /\ UNCHANGED rvars
    /\ UNCHANGED cvars

\* out: ret = flush_pending(&metadump, 1)
DumpFinal ==
    /\ dpc = "final"
    /\ call = NoCall
    /\ StepFlush([fn |-> "final", phase |-> "final", start |-> 0,
                  size |-> 0, data |-> 0], TRUE)
    /\ UNCHANGED scan_bytenr
    /\ UNCHANGED rvars
    /\ UNCHANGED cvars

\* a writer that does not wait for the workers
buffers_not_awaited(ni, nr) == TRUE

\* the condition that ends write_buffers' wait:
\* !(md->num_items > md->num_ready)
buffers_compressed(ni, nr) == ~(ni > nr)

\* write_buffers, once every item of the cluster is counted ready, and the
\* return through flush_pending into the waiting call
WriteBuffers ==
    /\ call # NoCall
    /\ buffers_compressed(num_items, num_ready)
    /\ \E w \in {WriteBuffersCalc} :
       /\ out' = w.out
       /\ nfwrite' = w.nfwrite
       /\ citems' = w.citems
       /\ ordered' = w.ordered
       /\ work' = w.work
       /\ header' = IF w.ret = 0 THEN meta_cluster_init(w.next)
                    ELSE w.header
       /\ num_items' = IF w.ret = 0 THEN 0 ELSE num_items
       /\ num_ready' = IF w.ret = 0 THEN 0 ELSE num_ready
       /\ Finish(call, w.ret, pending_start, pending_size)
    /\ UNCHANGED <<scen, scan_bytenr, dret, md_done, list, wpc, witem>>
    /\ UNCHANGED rvars
    /\ UNCHANGED cvars

\* metadump_destroy: set done and broadcast
DumpDestroy ==
    /\ dpc = "destroy"
    /\ md_done' = TRUE
    /\ dpc' = "join"
    /\ UNCHANGED <<scen, didx, scan_bytenr, call, err, msgs, dret, pending_start, pending_size,
                   md_data, header, citems, num_items, num_ready, list,
                   ordered, work, wpc, witem, out, nfwrite>>
    /\ UNCHANGED rvars
    /\ UNCHANGED cvars

\* the value create_metadump returns: err ? err : close_ctree()
ExitStatus(e) == IF e # 0 THEN e ELSE 0

\* metadump_destroy: every worker joined; create_metadump returns
DumpReturn ==
    /\ dpc = "join"
    /\ \A w \in Workers : wpc[w] = "exit"
    /\ dret' = ExitStatus(err)
    /\ dpc' = "done"
    /\ UNCHANGED <<scen, didx, scan_bytenr, call, err, msgs, pending_start, pending_size,
                   md_data, header, citems, num_items, num_ready, md_done,
                   list, ordered, work, wpc, witem, out, nfwrite>>
    /\ UNCHANGED rvars
    /\ UNCHANGED cvars

\* ------------------------------------------------------------------------
\* dump_worker
\* ------------------------------------------------------------------------
\* the worker leaves the wait and takes the head of md->list
WorkerTake(w) ==
    /\ wpc[w] = "idle"
    /\ list # << >>
    /\ witem' = [witem EXCEPT ![w] = Head(list)]
    /\ list' = Tail(list)
    /\ wpc' = [wpc EXCEPT ![w] = "work"]
    /\ UNCHANGED <<scen, dpc, didx, scan_bytenr, call, err, msgs, dret, pending_start,
                   pending_size, md_data, header, citems, num_items,
                   num_ready, md_done, ordered, work, out, nfwrite>>
    /\ UNCHANGED rvars
    /\ UNCHANGED cvars

\* the worker finds the list empty and done set
WorkerExit(w) ==
    /\ wpc[w] = "idle"
    /\ list = << >>
    /\ md_done
    /\ wpc' = [wpc EXCEPT ![w] = "exit"]
    /\ UNCHANGED <<scen, dpc, didx, scan_bytenr, call, err, msgs, dret, pending_start,
                   pending_size, md_data, header, citems, num_items,
                   num_ready, md_done, list, ordered, work, witem, out,
                   nfwrite>>
    /\ UNCHANGED rvars
    /\ UNCHANGED cvars

\* the worker compresses the buffer of the work it holds, outside the mutex
WorkerCompress(w) ==
    /\ wpc[w] = "work"
    /\ LET async == work[witem[w]]
           z == compress2(async.buffer, async.size,
                          scen.fault.cfail = async.start)
       IN work' = [work EXCEPT ![witem[w]] =
                      IF scen.cmd.compress_level > 0
                      THEN [async EXCEPT !.buffer = z.buffer,
                                         !.bufsize = z.bufsize,
                                         !.error = IF z.ok THEN 0 ELSE 1]
                      ELSE async]
    /\ wpc' = [wpc EXCEPT ![w] = "ready"]
    /\ UNCHANGED <<scen, dpc, didx, scan_bytenr, call, err, msgs, dret, pending_start,
                   pending_size, md_data, header, citems, num_items,
                   num_ready, md_done, list, ordered, witem, out, nfwrite>>
    /\ UNCHANGED rvars
    /\ UNCHANGED cvars

\* a worker that does not count its item
num_ready_not_counted(nr) == nr

\* md->num_ready++
num_ready_inc(nr) == nr + 1

\* md->num_ready++ under the mutex
WorkerReady(w) ==
    /\ wpc[w] = "ready"
    /\ num_ready' = num_ready_inc(num_ready)
    /\ wpc' = [wpc EXCEPT ![w] = "idle"]
    /\ UNCHANGED <<scen, dpc, didx, scan_bytenr, call, err, msgs, dret, pending_start,
                   pending_size, md_data, header, citems, num_items,
                   md_done, list, ordered, work, witem, out, nfwrite>>
    /\ UNCHANGED rvars
    /\ UNCHANGED cvars

\* ------------------------------------------------------------------------
\* Restore: state
\* ------------------------------------------------------------------------
\* main() calls restore_metadump(source, out, old_restore, 1)
RestoreThreads == 1

RWorkers == 1..RestoreThreads

\* ------------------------------------------------------------------------
\* Input stream
\* ------------------------------------------------------------------------
\* a block that does not carry the magic: what a read of something other
\* than a header block yields
NoHeader == [magic |-> <<0, 0, 0, 0>>, bytenr |-> 0, nritems |-> 0,
             compress |-> COMPRESS_NONE]

\* fread(ptr, n, 1, in) at position pos: fails unless n bytes are left
ReadOk(st, pos, n) == n > 0 /\ pos + n <= StreamLen(st)

\* the stream record read by an fread of n bytes at pos: the record written
\* at exactly [pos, pos + n), or bytes that straddle records (misframed)
ReadAt(st, pos, n) ==
    LET hit == {i \in 1..Len(st) : st[i].off = pos /\ st[i].len = n} IN
    IF hit = {} THEN [ZeroRec(n) EXCEPT !.kind = "misframed", !.off = pos]
    ELSE st[CHOOSE i \in hit : TRUE]

\* the first cluster of st holds two items or more, payloads included
TwoItems(st) ==
    /\ Len(st) >= 3
    /\ st[1].kind = "hdr" /\ st[1].hdr.nritems >= 2
    /\ st[2].kind = "buf" /\ st[3].kind = "buf"

\* the first item of st is the super-block item, payload included
SuperLeads(st) ==
    /\ Len(st) >= 2
    /\ st[1].kind = "hdr" /\ st[1].hdr.nritems >= 1
    /\ st[1].items[1].bytenr = BTRFS_SUPER_INFO_OFFSET
    /\ st[2].kind = "buf" /\ st[2].data.units # << >>
    /\ st[2].data.units[1].kind = "super"

\* the ways the input differs from the dump's output: the header at stream
\* record `at` is damaged, the input ends inside record `at`, the first
\* two items of the first cluster come in the other order, or they do and
\* the input ends inside the second of them; the image is of a
\* filesystem whose super-block records leaf size 0, or its first item is
\* recorded at the address behind the super-block, so that it holds no
\* super-block item (both correctly framed)
Corruptions(st) ==
    {[kind |-> "none", at |-> 0]} \cup
    {[kind |-> k, at |-> i] : k \in {"magic", "bytenr"},
                              i \in {j \in 1..Len(st) : st[j].kind = "hdr"}}
    \cup {[kind |-> "cut", at |-> i] : i \in 1..Len(st)}
    \cup {[kind |-> "swap", at |-> 1] : i \in {j \in {1} : TwoItems(st)}}
    \cup {[kind |-> "swapcut", at |-> 3] : i \in {j \in {1} : TwoItems(st)}}
    \cup {[kind |-> k, at |-> 1] : k \in {j \in {"nosuper", "leaf0"} :
                                            SuperLeads(st)}}

\* btrfs_sb_offset(1); the second mirror, at 256 GiB, lies beyond every
\* target of the model
SbMirror1 == 64 * 1024 * 1024

\* the targets of a restore: a regular file, which fopen(target, "w+")
\* leaves empty (0), or a block device of the given size, large enough
\* for the first backup super-block
TargetSizes == {0, SbMirror1 + 4096}

\* the first half of record r, all that is left of it in an input that
\* ends inside it
Partial(r) ==
    [ZeroRec(r.len \div 2) EXCEPT !.kind = "partial", !.off = r.off]

Corrupt(st, c) ==
    LET cut(s, at) ==
            SubSeq(s, 1, at - 1)
            \o (IF s[at].len \div 2 > 0 THEN << Partial(s[at]) >>
                ELSE << >>)
        swap ==
            [j \in 1..Len(st) |->
                IF j = 1
                THEN [st[1] EXCEPT !.items =
                         [k \in 1..Len(st[1].items) |->
                             IF k = 1 THEN st[1].items[2]
                             ELSE IF k = 2 THEN st[1].items[1]
                             ELSE st[1].items[k]]]
                ELSE IF j = 2 THEN [st[3] EXCEPT !.off = st[2].off]
                ELSE IF j = 3 THEN [st[2] EXCEPT !.off = st[2].off + st[3].len]
                ELSE st[j]]
    IN IF c.kind = "magic"
       THEN [st EXCEPT ![c.at].hdr.magic = <<0, 0, 0, 0>>]
       ELSE IF c.kind = "bytenr"
       THEN [st EXCEPT ![c.at].hdr.bytenr = @ + 1]
       ELSE IF c.kind = "cut" THEN cut(st, c.at)
       ELSE IF c.kind = "swap" THEN swap
       ELSE IF c.kind = "swapcut" THEN cut(swap, c.at)
       ELSE IF c.kind = "nosuper"
       THEN [st EXCEPT ![1].items[1].bytenr =
                          BTRFS_SUPER_INFO_OFFSET + SUPER_SIZE]
       ELSE IF c.kind = "leaf0"
       THEN [st EXCEPT ![2].data.units[1].leafsize = 0]
       ELSE st

\* a header test that looks at the magic only
BadHeaderMagicOnly(hdr, bytenr) == hdr.magic # HEADER_MAGIC

\* the header test of restore_metadump
BadHeader(hdr, bytenr) ==
    hdr.magic # HEADER_MAGIC \/ hdr.bytenr # bytenr

\* ------------------------------------------------------------------------
\* Restore: fixups
\* ------------------------------------------------------------------------
\* the buffer with its first unit (the super-block region) replaced
WithFirst(buf, u) ==
    [buf EXCEPT !.units = [j \in 1..Len(buf.units) |->
                              IF j = 1 THEN u ELSE buf.units[j]]]

HoldsSuper(buf) == buf.units # << >> /\ buf.units[1].kind = "super"

\* update_super_old(buffer): one whole-device system chunk
update_super_old(super) ==
    csum_block(
        [super EXCEPT
            !.flags = super.flags \cup {"METADUMP"},
            !.sys_array =
                << [key |-> [objectid |-> 256, type |-> "CHUNK_ITEM",
                             offset |-> 0],
                    chunk |-> [length |-> U64_MAX,
                               owner |-> "EXTENT_TREE",
                               stripe_len |-> 64 * 1024,
                               type |-> {"SYSTEM"},
                               num_stripes |-> 1, sub_stripes |-> 0,
                               stripes |->
                                   << [devid |-> super.devid,
                                       dev_uuid |-> super.dev_uuid,
                                       offset |-> 0] >>]]
                >>])

\* one entry of the system chunk array as update_super rewrites it
SysChunk(super, e) ==
    [e EXCEPT !.chunk.num_stripes = 1,
              !.chunk.sub_stripes = 0,
              !.chunk.type = {"SYSTEM"},
              !.chunk.stripes =
                  << [devid |-> super.devid, dev_uuid |-> super.dev_uuid,
                      offset |-> e.key.offset] >>]

\* update_super(buffer): every entry up to the first whose key is not a
\* chunk item is rewritten; such a key ends the walk with -EIO before the
\* array size and the checksum are updated
update_super(super) ==
    LET n == Len(super.sys_array)
        bogus == {j \in 1..n : super.sys_array[j].key.type # "CHUNK_ITEM"}
        stop == IF bogus = {} THEN n + 1
                ELSE CHOOSE j \in bogus : \A k \in bogus : j <= k
        arr == [j \in 1..n |-> IF j < stop
                               THEN SysChunk(super, super.sys_array[j])
                               ELSE super.sys_array[j]]
    IN  IF bogus = {}
        THEN [ret |-> 0, super |-> csum_block([super EXCEPT !.sys_array = arr])]
        ELSE [ret |-> -EIO, super |-> [super EXCEPT !.sys_array = arr]]

\* a fixup that sets the stripe counts and leaves the stripes alone
FixChunkItemCounts(md, it) ==
    IF it.type # "CHUNK_ITEM" THEN it
    ELSE [it EXCEPT !.data.num_stripes = 1, !.data.sub_stripes = 0]

\* the chunk items of a chunk-tree leaf as fixup_chunk_tree_block rewrites
\* them (truncate_item keeps one stripe)
FixChunkItem(md, it) ==
    IF it.type # "CHUNK_ITEM" THEN it
    ELSE [it EXCEPT
            !.data.type = it.data.type \cap {"DATA", "SYSTEM", "METADATA"},
            !.data.num_stripes = 1,
            !.data.sub_stripes = 0,
            !.data.stripes = << [devid |-> md.devid, dev_uuid |-> md.uuid,
                                 offset |-> it.offset] >>]

\* a fixup that clears the buffer from the first step that is not a tree
\* block of this filesystem
fixup_clears_rest(md, start, buf, size) ==
    LET n == Len(buf.units)
        alien == {j \in 1..n : \/ buf.units[j].kind # "block"
                               \/ buf.units[j].bytenr
                                     # start + (j - 1) * md.leafsize
                               \/ buf.units[j].fsid # md.fsid}
    IN [buf EXCEPT !.units =
          [j \in 1..n |-> IF \E k \in alien : k <= j
                          THEN [kind |-> "junk", bytenr |-> 0]
                          ELSE buf.units[j]]]

\* fixup_chunk_tree_block(mdres, async, buffer, size): the buffer is walked
\* in leafsize steps until a step is not the tree block of this filesystem
\* expected at that address; leaves of the chunk tree are rewritten
fixup_chunk_tree_block(md, start, buf, size) ==
    LET n == Len(buf.units)
        addr(j) == start + (j - 1) * md.leafsize
        alien == {j \in 1..n : \/ buf.units[j].kind # "block"
                               \/ buf.units[j].bytenr # addr(j)
                               \/ buf.units[j].fsid # md.fsid}
        stop == IF alien = {} THEN n + 1
                ELSE CHOOSE j \in alien : \A k \in alien : j <= k
        fix(u) == IF u.owner = "CHUNK_TREE" /\ u.level = 0
                  THEN csum_block(
                         [u EXCEPT !.items =
                            [i \in 1..Len(u.items) |->
                                FixChunkItem(md, u.items[i])]])
                  ELSE u
    IN  IF size % md.leafsize # 0 THEN buf
        ELSE [buf EXCEPT !.units =
                [j \in 1..n |-> IF j < stop THEN fix(buf.units[j])
                                ELSE buf.units[j]]]

\* fill_mdres_info(mdres, async): the restore descriptor from the
\* super-block payload
fill_mdres_info(md, async) ==
    LET dec == IF md.compress_method = COMPRESS_ZLIB
               THEN uncompress(async.buffer, MAX_PENDING_SIZE * 2)
               ELSE [ok |-> TRUE, buffer |-> async.buffer,
                     size |-> async.bufsize]
    IN  IF ~dec.ok THEN [ret |-> -EIO, mdres |-> md]
        ELSE IF HoldsSuper(dec.buffer)
        THEN LET super == dec.buffer.units[1] IN
             [ret |-> 0,
              mdres |-> [md EXCEPT !.leafsize = super.leafsize,
                                   !.fsid = super.fsid,
                                   !.uuid = super.dev_uuid,
                                   !.devid = super.devid]]
        ELSE [ret |-> 0,
              mdres |-> [md EXCEPT !.leafsize = 0, !.fsid = "garbage",
                                   !.uuid = "garbage", !.devid = 0]]

\* ------------------------------------------------------------------------
\* Restore: the target file
\* ------------------------------------------------------------------------
JunkUnit == [kind |-> "junk", bytenr |-> 0]

\* the addresses and contents of pwrite64(outfd, outbuf, size, start): the
\* buffer's units one after the other, or `size` bytes of whatever the
\* buffer holds when it holds no units
WriteMap(buf, size, start) ==
    IF buf.units = << >>
    THEN [a \in {start + 4096 * i : i \in 0..((size + 4095) \div 4096 - 1)}
            |-> JunkUnit]
    ELSE LET n == Len(buf.units) IN
         CHOOSE m \in
            UNION {{[a \in {start + RangeSum(lens, 1, j - 1) : j \in 1..n} |->
                       buf.units[CHOOSE j \in 1..n :
                                    a = start + RangeSum(lens, 1, j - 1)]]}
                   : lens \in {[j \in 1..n |->
                                  UnitLen(buf.units[j], scen.ns)]}} : TRUE

PwriteNothing(img, m) == img

\* the file after the write of map m
Pwrite(img, m) ==
    [a \in DOMAIN img \cup DOMAIN m |-> IF a \in DOMAIN m THEN m[a]
                                        ELSE img[a]]

\* st_size of the target, a regular file
FileSize(img) ==
    IF DOMAIN img = {} THEN 0
    ELSE 4096 + CHOOSE a \in DOMAIN img : \A b \in DOMAIN img : b <= a

\* btrfs_device_size(fd, &st): st_size of a regular file, the size of a
\* block device
btrfs_device_size(img) ==
    IF rtarget = 0 THEN FileSize(img) ELSE rtarget

\* the offsets write_backup_supers writes at: those of the mirrors that
\* fit in the target
BackupOffsets(size) ==
    IF SbMirror1 + 4096 > size THEN << >> ELSE << SbMirror1 >>

\* write_backup_supers(fd, buf): the first 4096 bytes of the buffer at
\* each mirror that fits
write_backup_supers(img, buf) ==
    LET offs == BackupOffsets(btrfs_device_size(img))
        u == IF buf.units = << >> THEN JunkUnit ELSE buf.units[1]
    IN  IF offs = << >> THEN img
        ELSE Pwrite(img, [a \in {offs[j] : j \in 1..Len(offs)} |-> u])

\* ------------------------------------------------------------------------
\* Restore driver: restore_metadump
\* ------------------------------------------------------------------------
NoAsync == [start |-> 0, bufsize |-> 0, buffer |-> Freed, off |-> 0]

\* memset(mdres, 0, sizeof(*mdres)); mdres->old_restore = old_restore
mdrestore_init(old_restore) ==
    [num_items |-> 0, leafsize |-> 0, devid |-> 0, uuid |-> "-",
     fsid |-> "-", compress_method |-> COMPRESS_NONE, done |-> FALSE,
     error |-> 0, old_restore |-> old_restore]

\* the break out of restore_metadump's loop with value ret
RestoreBreak(ret, said) ==
    /\ rret' = ret
    /\ rmsgs' = rmsgs \cup said
    /\ rpc' = "destroy"

\* the restorer is started on the dump's output, intact, with one damaged
\* cluster header or cut short, in either restore mode
RestoreStart ==
    /\ dpc = "done"
    /\ rpc = "off"
    /\ \E c \in Corruptions(out), old \in BOOLEAN, t \in TargetSizes :
          /\ RestoreRuns(scen, c, old, t)
          /\ rcorrupt' = c
          /\ rtarget' = t
          /\ rin' = Corrupt(out, c)
          /\ mdres' = mdrestore_init(old)
    /\ rpc' = "read"
    /\ rwpc' = [w \in RWorkers |-> "idle"]
    /\ UNCHANGED <<rpos, rbytenr, rret, rmsgs, cluster, ridx, rnext, rlist,
                   rwitem, rwerr, image, pwrites>>
    /\ UNCHANGED dumpvars
    /\ UNCHANGED cvars

\* the top of the loop: read one block, test the header, enter add_cluster
RestoreReadCluster ==
    /\ rpc = "read"
    /\ IF ~ReadOk(rin, rpos, BLOCK_SIZE)
       THEN /\ RestoreBreak(0, {})
            /\ rpos' = StreamLen(rin)
            /\ UNCHANGED <<cluster, ridx, rnext, mdres>>
       ELSE LET rec == ReadAt(rin, rpos, BLOCK_SIZE)
                hdr == IF rec.kind = "hdr" THEN rec.hdr ELSE NoHeader
            IN /\ rpos' = rpos + BLOCK_SIZE
               /\ IF BadHeader(hdr, rbytenr)
                  THEN /\ RestoreBreak(-EIO,
                                       {"bad header in metadump image"})
                       /\ UNCHANGED <<cluster, ridx, rnext, mdres>>
                  ELSE IF mdres.num_items # 0
                  THEN /\ rpc' = "abort"
                       /\ UNCHANGED <<rret, rmsgs, cluster, ridx, rnext,
                                      mdres>>
                  ELSE /\ cluster' = [hdr |-> hdr, items |-> rec.items]
                       /\ mdres' = [mdres EXCEPT
                                      !.compress_method = hdr.compress]
                       /\ rnext' = hdr.bytenr + BLOCK_SIZE
                       /\ ridx' = 1
                       /\ rpc' = "item"
                       /\ UNCHANGED <<rret, rmsgs>>
    /\ UNCHANGED <<rcorrupt, rtarget, rin, rbytenr, rlist, rwpc, rwitem, rwerr,
                   image, pwrites>>
    /\ UNCHANGED dumpvars
    /\ UNCHANGED cvars

\* list_add in place of list_add_tail
list_add(l, a) == <<a>> \o l

\* list_add_tail(&async->list, &mdres->list)
list_add_tail(l, a) == Append(l, a)

\* one iteration of add_cluster's loop: read the payload, learn the
\* filesystem's parameters from the super-block item, queue the work
AddClusterItem ==
    /\ rpc = "item"
    /\ ridx <= cluster.hdr.nritems
    /\ LET item == cluster.items[ridx]
           rec == ReadAt(rin, rpos, item.size)
           async == [start |-> item.bytenr, bufsize |-> item.size,
                     buffer |-> IF rec.kind = "buf" THEN rec.data
                                ELSE JunkBuf(item.size),
                     off |-> rpos]
           fi == IF async.start = BTRFS_SUPER_INFO_OFFSET
                 THEN fill_mdres_info(mdres, async)
                 ELSE [ret |-> 0, mdres |-> mdres]
       IN IF ~ReadOk(rin, rpos, item.size)
          THEN /\ RestoreBreak(-EIO, {"Error reading buffer",
                                      "Error adding cluster"})
               /\ rpos' = StreamLen(rin)
               /\ UNCHANGED <<ridx, rnext, mdres, rlist>>
          ELSE /\ rpos' = rpos + item.size
               /\ rnext' = rnext + item.size
               /\ IF fi.ret # 0
                  THEN /\ RestoreBreak(fi.ret, {"Error setting up restore",
                                                "Error adding cluster"})
                       /\ UNCHANGED <<ridx, mdres, rlist>>
                  ELSE /\ rlist' = list_add_tail(rlist, async)
                       /\ mdres' = [fi.mdres EXCEPT !.num_items = @ + 1]
                       /\ ridx' = ridx + 1
                       /\ UNCHANGED <<rpc, rret, rmsgs>>
    /\ UNCHANGED <<rcorrupt, rtarget, rin, rbytenr, cluster, rwpc, rwitem, rwerr,
                   image, pwrites>>
    /\ UNCHANGED dumpvars
    /\ UNCHANGED cvars

\* the end of add_cluster: skip the padding, report the next header offset
AddClusterEnd ==
    /\ rpc = "item"
    /\ ridx > cluster.hdr.nritems
    /\ LET size == IF rnext % BLOCK_SIZE # 0
                   THEN BLOCK_SIZE - (rnext % BLOCK_SIZE) ELSE 0
       IN IF size # 0 /\ ~ReadOk(rin, rpos, size)
          THEN /\ RestoreBreak(-EIO, {"Error reading in buffer",
                                      "Error adding cluster"})
               /\ rpos' = StreamLen(rin)
               /\ UNCHANGED rbytenr
          ELSE /\ rpos' = rpos + size
               /\ rbytenr' = rnext + size
               /\ rpc' = "wait"
               /\ UNCHANGED <<rret, rmsgs>>
    /\ UNCHANGED <<rcorrupt, rtarget, rin, cluster, ridx, rnext, mdres, rlist, rwpc,
                   rwitem, rwerr, image, pwrites>>
    /\ UNCHANGED dumpvars
    /\ UNCHANGED cvars

\* a wait that returns at once
wait_for_worker_no_wait(md) == TRUE

\* the condition that ends wait_for_worker's loop:
\* !(!ret && mdres->num_items > 0)
wait_for_worker_ends(md) == md.error # 0 \/ md.num_items = 0

\* wait_for_worker returns: an error was recorded, or nothing is left
WaitForWorker ==
    /\ rpc = "wait"
    /\ wait_for_worker_ends(mdres)
    /\ IF mdres.error # 0
       THEN RestoreBreak(mdres.error, {"One of the threads errored out"})
       ELSE /\ rpc' = "read"
            /\ UNCHANGED <<rret, rmsgs>>
    /\ UNCHANGED <<rcorrupt, rtarget, rin, rpos, rbytenr, cluster, ridx, rnext,
                   mdres, rlist, rwpc, rwitem, rwerr, image, pwrites>>
    /\ UNCHANGED dumpvars
    /\ UNCHANGED cvars

\* mdrestore_destroy: set done and broadcast
RestoreDestroy ==
    /\ rpc = "destroy"
    /\ mdres' = [mdres EXCEPT !.done = TRUE]
    /\ rpc' = "join"
    /\ UNCHANGED <<rcorrupt, rtarget, rin, rpos, rbytenr, rret, rmsgs, cluster, ridx,
                   rnext, rlist, rwpc, rwitem, rwerr, image, pwrites>>
    /\ UNCHANGED dumpvars
    /\ UNCHANGED cvars

\* mdrestore_destroy: every worker joined; restore_metadump returns ret
RestoreReturn ==
    /\ rpc = "join"
    /\ \A w \in RWorkers : rwpc[w] = "exit"
    /\ rpc' = "done"
    /\ UNCHANGED <<rcorrupt, rtarget, rin, rpos, rbytenr, rret, rmsgs, cluster, ridx,
                   rnext, mdres, rlist, rwpc, rwitem, rwerr, image, pwrites>>
    /\ UNCHANGED dumpvars
    /\ UNCHANGED cvars

\* ------------------------------------------------------------------------
\* restore_worker
\* ------------------------------------------------------------------------
\* a wait that looks at the list only
list_not_empty(md, l) == l # << >>

\* the condition that ends the worker's wait:
\* !(!mdres->leafsize || list_empty(&mdres->list))
work_available(md, l) == md.leafsize # 0 /\ l # << >>

\* a take that leaves the entry on the list
list_del_skipped(l) == l

\* list_del_init(&async->list) of the list's first entry
list_del_init(l) == Tail(l)

\* the worker leaves the wait (leafsize known, list not empty) and takes
\* the head of mdres->list
RestoreTake(w) ==
    /\ rwpc[w] = "idle"
    /\ work_available(mdres, rlist)
    /\ rwitem' = [rwitem EXCEPT ![w] = Head(rlist)]
    /\ rlist' = list_del_init(rlist)
    /\ rwpc' = [rwpc EXCEPT ![w] = "work"]
    /\ UNCHANGED <<rcorrupt, rtarget, rin, rpos, rpc, rbytenr, rret, rmsgs, cluster,
                   ridx, rnext, mdres, rwerr, image, pwrites>>
    /\ UNCHANGED dumpvars
    /\ UNCHANGED cvars

\* the worker finds nothing to take and done set
RestoreExit(w) ==
    /\ rwpc[w] = "idle"
    /\ ~work_available(mdres, rlist)
    /\ mdres.done
    /\ rwpc' = [rwpc EXCEPT ![w] = "exit"]
    /\ UNCHANGED <<rcorrupt, rtarget, rin, rpos, rpc, rbytenr, rret, rmsgs, cluster,
                   ridx, rnext, mdres, rlist, rwitem, rwerr, image, pwrites>>
    /\ UNCHANGED dumpvars
    /\ UNCHANGED cvars

\* what the worker does with one item outside the mutex: decompress, fix
\* up, give the buffer to write and the error to record
RestoreItem(md, async) ==
    LET zl == md.compress_method = COMPRESS_ZLIB
        dec == IF zl THEN uncompress(async.buffer, MAX_PENDING_SIZE * 2)
               ELSE [ok |-> TRUE, buffer |-> async.buffer,
                     size |-> async.bufsize]
        err0 == IF dec.ok THEN 0 ELSE -EIO
        isSuper == async.start = BTRFS_SUPER_INFO_OFFSET
        us == IF isSuper /\ ~md.old_restore /\ HoldsSuper(dec.buffer)
              THEN update_super(dec.buffer.units[1])
              ELSE [ret |-> 0, super |-> JunkUnit]
        outbuf == IF isSuper
                  THEN IF ~HoldsSuper(dec.buffer) THEN dec.buffer
                       ELSE IF md.old_restore
                       THEN WithFirst(dec.buffer,
                                update_super_old(dec.buffer.units[1]))
                       ELSE WithFirst(dec.buffer, us.super)
                  ELSE IF ~md.old_restore
                  THEN fixup_chunk_tree_block(md, async.start, dec.buffer,
                                              dec.size)
                  ELSE dec.buffer
    IN  [outbuf |-> outbuf, size |-> dec.size,
         err |-> IF us.ret # 0 THEN us.ret ELSE err0]

\* decompress, fix up, pwrite64 at the item's address, backup supers
RestoreWrite(w) ==
    /\ rwpc[w] = "work"
    /\ \E async \in {rwitem[w]} :
       \E r \in {RestoreItem(mdres, async)} :
       \E wm \in {WriteMap(r.outbuf, r.size, async.start)} :
       \E img \in {Pwrite(image, wm)} :
       \E offs \in {IF async.start = BTRFS_SUPER_INFO_OFFSET
                     THEN BackupOffsets(btrfs_device_size(img)) ELSE << >>} :
          /\ image' = IF async.start = BTRFS_SUPER_INFO_OFFSET
                      THEN write_backup_supers(img, r.outbuf) ELSE img
          /\ pwrites' = Append(pwrites, [start |-> async.start,
                                         size |-> r.size,
                                         off |-> async.off,
                                         backup |-> FALSE])
                        \o [j \in 1..Len(offs) |->
                               [start |-> offs[j], size |-> 4096,
                                off |-> async.off, backup |-> TRUE]]
          /\ rwerr' = [rwerr EXCEPT ![w] = r.err]
    /\ rwpc' = [rwpc EXCEPT ![w] = "finish"]
    /\ UNCHANGED <<rcorrupt, rtarget, rin, rpos, rpc, rbytenr, rret, rmsgs, cluster,
                   ridx, rnext, mdres, rlist, rwitem>>
    /\ UNCHANGED dumpvars
    /\ UNCHANGED cvars

\* under the mutex: record the first error, count the item done
RestoreFinish(w) ==
    /\ rwpc[w] = "finish"
    /\ mdres' = [mdres EXCEPT
                   !.error = IF rwerr[w] # 0 /\ mdres.error = 0
                             THEN rwerr[w] ELSE mdres.error,
                   !.num_items = @ - 1]
    /\ rwpc' = [rwpc EXCEPT ![w] = "idle"]
    /\ UNCHANGED <<rcorrupt, rtarget, rin, rpos, rpc, rbytenr, rret, rmsgs, cluster,
                   ridx, rnext, rlist, rwitem, rwerr, image, pwrites>>
    /\ UNCHANGED dumpvars
    /\ UNCHANGED cvars

\* ------------------------------------------------------------------------
\* The CRC helper: btrfs-crc -c crc -l length
\* ------------------------------------------------------------------------
\* the longest candidate strings of the model
MaxCrcLength == 2

\* ' ', '/' and the last byte of the odometer
SPACE == 32
SLASH == 47
DEL == 127

\* ~1, the seed of the name hash
SeedNot1 == -2

\* crc32c(seed, data, length), kept symbolic: on strings of one length of
\* at most four bytes CRC32C takes no value twice, so equal checksums are
\* equal strings
crc32c(seed, data) == [seed |-> seed, data |-> data]

\* the values the byte behind the allocation may hold when the odometer
\* first reads it
OobBytes == {DEL - 1, DEL}

\* the targets given with -c for strings of length n: the checksums of
\* some strings of that length, with and without '/', and a checksum no
\* string of that length has
CrcTargets(n) ==
    {crc32c(SeedNot1, [j \in 1..n |-> 97]),
     crc32c(SeedNot1, [j \in 1..n |-> IF j = 1 THEN SLASH ELSE 97]),
     crc32c(SeedNot1, [j \in 1..n |-> IF j = n THEN SLASH ELSE 97]),
     crc32c(SeedNot1, << >>)}

\* the candidate in buf[0..length-1]
Candidate == [j \in 1..clength |-> cbuf[j - 1]]

\* buf[k]++; if (buf[k] == '/') buf[k]++
Bump(b) == IF b + 1 = SLASH THEN b + 2 ELSE b + 1

\* the index the do-while of the carry stops at: the first i >= 1 with
\* i > length or buf[i] != 127; buf[length] is read on the way when
\* buf[1..length-1] are all 127
CarryStop ==
    LET stops == {k \in 1..clength : cbuf[k] # DEL}
    IN  IF stops = {} THEN clength + 1
        ELSE CHOOSE k \in stops : \A m \in stops : k <= m

\* the helper has not been started
CrcOff ==
    /\ cpc = "off"
    /\ clength = 0
    /\ cchecksum = crc32c(SeedNot1, << >>)
    /\ cbuf = [j \in 0..0 |-> 0]
    /\ ci = 0
    /\ cprinted = << >>
    /\ ctests = 0
    /\ cover = FALSE

\* main up to the loop: buf = malloc(length); memset(buf, ' ', length)
CrcInit ==
    /\ cpc = "test"
    /\ clength \in 1..MaxCrcLength
    /\ cchecksum \in CrcTargets(clength)
    /\ \E o \in OobBytes :
          cbuf = [j \in 0..clength |-> IF j < clength THEN SPACE ELSE o]
    /\ ci = 0
    /\ cprinted = << >>
    /\ ctests = 0
    /\ cover = FALSE

\* if (crc32c(~1, buf, length) == checksum) printf(...)
CrcTest ==
    /\ cpc = "test"
    /\ cprinted' = IF crc32c(SeedNot1, Candidate) = cchecksum
                   THEN Append(cprinted, Candidate) ELSE cprinted
    /\ ctests' = ctests + 1
    /\ cpc' = "step"
    /\ UNCHANGED <<clength, cchecksum, cbuf, ci, cover>>
    /\ UNCHANGED <<dumpvars, rvars>>

\* buf[i] != 127: buf[i]++
CrcIncrement ==
    /\ cpc = "step"
    /\ cbuf[ci] # DEL
    /\ cbuf' = [cbuf EXCEPT ![ci] = @ + 1]
    /\ cpc' = "test"
    /\ UNCHANGED <<clength, cchecksum, ci, cprinted, ctests, cover>>
    /\ UNCHANGED <<dumpvars, rvars>>

\* buf[i] == 127 and the carry stops at an index <= length: that byte is
\* bumped past '/', the bytes below it are set to ' ', i = 0
CrcCarry ==
    /\ cpc = "step"
    /\ cbuf[ci] = DEL
    /\ CarryStop <= clength
    /\ cbuf' = [j \in 0..clength |->
                  IF j < CarryStop THEN SPACE
                  ELSE IF j = CarryStop THEN Bump(cbuf[j]) ELSE cbuf[j]]
    /\ ci' = 0
    /\ cover' = (cover \/ CarryStop = clength)
    /\ cpc' = "test"
    /\ UNCHANGED <<clength, cchecksum, cprinted, ctests>>
    /\ UNCHANGED <<dumpvars, rvars>>

\* buf[i] == 127 and the carry runs to i > length: break, return 0
CrcBreak ==
    /\ cpc = "step"
    /\ cbuf[ci] = DEL
    /\ CarryStop > clength
    /\ ci' = CarryStop
    /\ cover' = TRUE
    /\ cpc' = "done"
    /\ UNCHANGED <<clength, cchecksum, cbuf, cprinted, ctests>>
    /\ UNCHANGED <<dumpvars, rvars>>

CrcNext ==
    \/ CrcTest
    \/ CrcIncrement
    \/ CrcCarry
    \/ CrcBreak

\* ------------------------------------------------------------------------
\* Specification
\* ------------------------------------------------------------------------
\* the state after metadump_init
DumpInit ==
    /\ scen \in Scenarios
    /\ dpc = "super"
    /\ didx = 1
    /\ scan_bytenr = BTRFS_SUPER_INFO_OFFSET + SUPER_SIZE
    /\ call = NoCall
    /\ err = 0
    /\ msgs = {}
    /\ dret = 0
    /\ pending_start = U64_MAX
    /\ pending_size = 0
    /\ md_data = 0
    /\ header = meta_cluster_init(0)
    /\ citems = [i \in 1..ITEMS_PER_CLUSTER |-> [bytenr |-> 0, size |-> 0]]
    /\ num_items = 0
    /\ num_ready = 0
    /\ md_done = FALSE
    /\ list = << >>
    /\ ordered = << >>
    /\ work = << >>
    /\ wpc = [w \in Workers |-> "idle"]
    /\ witem = [w \in Workers |-> 0]
    /\ out = << >>
    /\ nfwrite = 0

DumpNext ==
    \/ DumpSuper
    \/ DumpExtent
    \/ DumpLog
    \/ DumpCache
    \/ DumpFinal
    \/ WriteBuffers
    \/ DumpDestroy
    \/ DumpReturn
    \/ \E w \in Workers : WorkerTake(w)
    \/ \E w \in Workers : WorkerCompress(w)
    \/ \E w \in Workers : WorkerReady(w)
    \/ \E w \in Workers : WorkerExit(w)

\* the restorer has not been started
RestoreInit ==
    /\ rcorrupt = [kind |-> "none", at |-> 0]
    /\ rtarget = 0
    /\ rin = << >>
    /\ rpos = 0
    /\ rpc = "off"
    /\ rbytenr = 0
    /\ rret = 0
    /\ rmsgs = {}
    /\ cluster = [hdr |-> NoHeader, items |-> << >>]
    /\ ridx = 0
    /\ rnext = 0
    /\ mdres = mdrestore_init(FALSE)
    /\ rlist = << >>
    /\ rwpc = [w \in RWorkers |-> "off"]
    /\ rwitem = [w \in RWorkers |-> NoAsync]
    /\ rwerr = [w \in RWorkers |-> 0]
    /\ image = [a \in {} |-> JunkUnit]
    /\ pwrites = << >>

RestoreNext ==
    \/ RestoreStart
    \/ RestoreReadCluster
    \/ AddClusterItem
    \/ AddClusterEnd
    \/ WaitForWorker
    \/ RestoreDestroy
    \/ RestoreReturn
    \/ \E w \in RWorkers : RestoreTake(w)
    \/ \E w \in RWorkers : RestoreWrite(w)
    \/ \E w \in RWorkers : RestoreFinish(w)
    \/ \E w \in RWorkers : RestoreExit(w)

vars == <<dumpvars, rvars, cvars>>

DumpSpecInit == DumpInit /\ RestoreInit /\ CrcOff

\* the dumper alone, over every scenario
DumpSpec == DumpSpecInit /\ [][DumpNext]_vars

Init == DumpSpecInit /\ scen \in RestoreScenarios

Next == DumpNext \/ RestoreNext

\* the dumper's threads scheduled fairly: a worker that can take a step
\* eventually takes one, and so does the driver once the condition it
\* waits for in write_buffers holds (pthread_cond_wait returns after the
\* worker's signal)
DumpFairness ==
    /\ WF_vars(WriteBuffers)
    /\ WF_vars(\E w \in Workers : WorkerTake(w))
    /\ WF_vars(\E w \in Workers : WorkerCompress(w))
    /\ WF_vars(\E w \in Workers : WorkerReady(w))
    /\ WF_vars(\E w \in Workers : WorkerExit(w))

\* the dumps checked for progress: those of the small layouts (a cluster
\* of ITEMS_PER_CLUSTER items adds nothing to the writer's wait)
DumpLiveInit == DumpSpecInit /\ scen.layout.name # "long"

DumpLiveSpec == DumpLiveInit /\ [][DumpNext]_vars /\ DumpFairness

\* a dump followed by a restore of its output
Spec == Init /\ [][Next]_vars

\* the restorer's threads scheduled fairly: the driver and the worker each
\* take a step they can take (the driver's wait polls every 10 ms)
RestoreFairness ==
    /\ WF_vars(RestoreReadCluster \/ AddClusterItem \/ AddClusterEnd
                 \/ WaitForWorker \/ RestoreDestroy \/ RestoreReturn)
    /\ WF_vars(\E w \in RWorkers : RestoreTake(w))
    /\ WF_vars(\E w \in RWorkers : RestoreWrite(w))
    /\ WF_vars(\E w \in RWorkers : RestoreFinish(w))
    /\ WF_vars(\E w \in RWorkers : RestoreExit(w))

\* the restores checked for progress: those of the fault-free dumps of
\* the six-extent layout
RestoreLiveInit ==
    /\ Init
    /\ scen.layout.name = "short"
    /\ scen.fault = NoFault

RestoreLiveSpec == RestoreLiveInit /\ [][Next]_vars /\ RestoreFairness

\* the CRC helper in its brute-force mode; the dumper and the restorer are
\* not run
CrcSpecInit ==
    /\ DumpInit /\ scen = [layout |-> TinyLayout, ns |-> 4096,
                            cmd |-> [compress_level |-> 0,
                                     num_threads |-> 0],
                            fault |-> NoFault]
    /\ RestoreInit
    /\ CrcInit

CrcSpec == CrcSpecInit /\ [][CrcNext]_vars

\* ------------------------------------------------------------------------
\* Properties of the dump stream
\* ------------------------------------------------------------------------
\* the places of stream st that hold a record of kind k
RecsOf(st, k) == {i \in 1..Len(st) : st[i].kind = k}

\* no fwrite call made so far has failed
NoWriteFailed == \A k \in 1..nfwrite : ~FwriteFails(k)

\* C1: in the dump's output stream the payloads lie in submission order:
\* of two work items, the one submitted first (the lower id) has its
\* payload at the lower offset, whatever the number of workers and the
\* order in which they finish.
C1_PayloadOrder ==
    \A i, j \in RecsOf(out, "buf") :
        out[i].id < out[j].id => out[i].off < out[j].off

\* C1 witness: a dump with more than one worker has written a cluster of
\* several payloads.
C1_Witness ==
    /\ scen.cmd.num_threads >= 2
    /\ Cardinality(RecsOf(out, "buf")) >= 3

\* a later submission is compressed while an earlier one still is not
C1_OutOfOrder ==
    \E i, j \in 1..Len(work) :
        /\ i < j
        /\ work[i].buffer.kind = "plain"
        /\ work[j].buffer.kind = "zlib"

\* C2: every cluster header in the output carries the magic, and the
\* bytenr it records is its own offset in the stream.
C2_HeaderPlace ==
    \A i \in RecsOf(out, "hdr") :
        /\ out[i].hdr.magic = HEADER_MAGIC
        /\ out[i].hdr.bytenr = out[i].off

\* C2 witness: a second cluster has been written, behind a first one whose
\* payloads needed padding.
C2_Witness ==
    \E i \in RecsOf(out, "hdr") :
        /\ out[i].off > 0
        /\ out[i].hdr.nritems > 0
        /\ RecsOf(out, "zero") # {}

\* C3: as long as no write to the output has failed, the stream is a whole
\* number of 1024-byte blocks after every cluster written, and so is it
\* when the dump ends; every header starts on a block boundary.
C3_BlockMultiple ==
    NoWriteFailed =>
        /\ StreamLen(out) % BLOCK_SIZE = 0
        /\ \A i \in RecsOf(out, "hdr") : out[i].off % BLOCK_SIZE = 0

\* C3 witness: the dump has ended after writing compressed payloads, whose
\* sizes are not multiples of the block size, and the padding behind them.
C3_Witness ==
    /\ dpc = "done"
    /\ NoWriteFailed
    /\ \E i \in RecsOf(out, "buf") : out[i].len % BLOCK_SIZE # 0
    /\ \E i \in RecsOf(out, "zero") : out[i].len > 0

\* the offset the index of header record h gives to its k-th payload
PayloadOff(h, k) ==
    h.off + BLOCK_SIZE +
    RangeSum([m \in 1..h.hdr.nritems |-> h.items[m].size], 1, k - 1)

\* C4: for every descriptor (LA, size) of a cluster in the output, the
\* stream, where it reaches that far, holds at the offset of the header
\* block plus 1024 plus the sizes of the preceding descriptors one payload
\* of exactly `size` bytes; it is the stored form of the work item whose
\* run starts at LA, and `size` is the length of that stored form.
C4_IndexMatchesPayload ==
    \A i \in RecsOf(out, "hdr") :
        \A k \in 1..out[i].hdr.nritems :
            LET d == out[i].items[k]
                at == PayloadOff(out[i], k)
            IN  at + d.size <= StreamLen(out) =>
                    \E j \in RecsOf(out, "buf") :
                        /\ out[j].off = at
                        /\ out[j].len = d.size
                        /\ out[j].data.len = d.size
                        /\ work[out[j].id].start = d.bytenr
                        /\ work[out[j].id].bufsize = d.size

\* C4 witness: a cluster of several compressed payloads is in the output.
C4_Witness ==
    \E i \in RecsOf(out, "hdr") :
        /\ out[i].hdr.compress = COMPRESS_ZLIB
        /\ out[i].hdr.nritems >= 3
        /\ \E j \in RecsOf(out, "buf") :
              /\ out[j].off = PayloadOff(out[i], 3)
              /\ out[j].data.kind = "zlib"
              /\ out[j].data.rawlen # out[j].len

\* C5: the pending run never exceeds MAX_PENDING_SIZE, and neither does
\* the uncompressed size of any submitted work item.
C5_PendingBounded ==
    /\ pending_size <= MAX_PENDING_SIZE
    /\ \A i \in 1..Len(work) : work[i].size <= MAX_PENDING_SIZE

\* C8: when the codec failed on an item of the dump, create_metadump
\* returns a non-zero status.
C8_CodecFailureReported ==
    (dpc = "done" /\ \E i \in 1..Len(work) : work[i].error # 0)
        => dret # 0

\* the diagnostics of the dumper's steps
StepDiagnostics ==
    {"Error adding metadata", "Error adding block",
     "Error adding metadata block", "Error reading log root block",
     "Error reading log block", "Error copying tree log, it wasn't setup",
     "Error adding space cache blocks"}

\* C9: when a step of the dumper failed (adding the super-block, the
\* extent scan, the log walk or the free-space-cache walk),
\* create_metadump returns a non-zero status.
C9_StepFailureReported ==
    (dpc = "done" /\ msgs \cap StepDiagnostics # {}) => dret # 0

\* C10: when the final flush failed, create_metadump returns a non-zero
\* status, whether or not an earlier step had failed.
C10_FinalFlushReported ==
    (dpc = "done" /\ "Error flushing pending" \in msgs) => dret # 0

\* ------------------------------------------------------------------------
\* Properties of the restore
\* ------------------------------------------------------------------------
\* the logical addresses of the metadata blocks a dump of scenario sc
\* visits: the super-block, the tree blocks of the extent tree's records,
\* the blocks of the log tree
DumpedBlocks(sc) ==
    {BTRFS_SUPER_INFO_OFFSET}
    \cup {ExtentRec(sc.layout, sc.ns, i).objectid :
            i \in {k \in 1..sc.layout.n :
                      ExtentRec(sc.layout, sc.ns, k).tree}}
    \cup {copy_log_trees(sc.layout, sc.ns, sc.fault.bad)[i].start :
            i \in {k \in 1..Len(copy_log_trees(sc.layout, sc.ns,
                                               sc.fault.bad)) :
                      copy_log_trees(sc.layout, sc.ns,
                                     sc.fault.bad)[k].op = "add"}}

\* the masked form of the original block at la
Masked(la) == copy_buffer(FsBlock(la, scen.ns))

\* a dump and a restore of its intact output have both ended without any
\* error
RoundTripDone ==
    /\ dpc = "done" /\ dret = 0 /\ msgs = {}
    /\ rcorrupt.kind = "none"
    /\ rpc = "done" /\ rret = 0 /\ rmsgs = {}

\* the blocks the restorer rewrites: the super-block, and in normal mode
\* the leaves of the chunk tree
Rewritten(la) ==
    \/ la = BTRFS_SUPER_INFO_OFFSET
    \/ /\ ~mdres.old_restore
       /\ Masked(la).owner = "CHUNK_TREE"
       /\ Masked(la).level = 0

\* C6 as stated: after a dump and a restore, every dumped metadata block
\* reads back from the target, at its logical address, as the masked form
\* of the original block.
C6_RoundTripAll ==
    RoundTripDone =>
        \A la \in DumpedBlocks(scen) :
            la \in DOMAIN image /\ image[la] = Masked(la)

\* C6 amended: after a dump and a restore that both ended without error,
\* every dumped metadata block is in the target at its logical address;
\* it equals the masked form of the original unless it is the super-block
\* or, in normal mode, a chunk-tree leaf.  The super-block differs from
\* the original in its flags, system chunk array and checksum only, a
\* chunk-tree leaf in its items and checksum only.
C6_RoundTripButRewritten ==
    RoundTripDone =>
        \A la \in DumpedBlocks(scen) :
            /\ la \in DOMAIN image
            /\ ~Rewritten(la) => image[la] = Masked(la)
            /\ la = BTRFS_SUPER_INFO_OFFSET =>
                  /\ image[la] # Masked(la)
                  /\ [image[la] EXCEPT !.flags = Masked(la).flags,
                                       !.sys_array = Masked(la).sys_array,
                                       !.csum = Masked(la).csum]
                        = Masked(la)
            /\ (Rewritten(la) /\ la # BTRFS_SUPER_INFO_OFFSET) =>
                  [image[la] EXCEPT !.items = Masked(la).items,
                                    !.csum = Masked(la).csum] = Masked(la)

\* C6 witness: a compressed dump was restored in normal mode; the target
\* holds a leaf of the filesystem tree in masked form and a chunk-tree
\* leaf that differs from its masked form.
C6_Witness ==
    /\ RoundTripDone
    /\ scen.cmd.compress_level > 0
    /\ ~mdres.old_restore
    /\ \E la \in DumpedBlocks(scen) :
          /\ ~Rewritten(la)
          /\ Masked(la).items # FsBlock(la, scen.ns).items
          /\ image[la] = Masked(la)
    /\ \E la \in DumpedBlocks(scen) :
          /\ la # BTRFS_SUPER_INFO_OFFSET
          /\ Rewritten(la)
          /\ image[la] # Masked(la)

\* the stream offset of the damaged header
DamagedAt == rin[rcorrupt.at].off

\* the stream offsets of the payloads the restorer has queued, holds in a
\* worker, or has written
Handled ==
    {rlist[j].off : j \in 1..Len(rlist)}
    \cup {rwitem[w].off : w \in {v \in RWorkers :
                                    rwpc[v] \in {"work", "finish"}}}
    \cup {pwrites[j].off : j \in 1..Len(pwrites)}

\* C7: when the header of cluster k carries a wrong magic or a bytenr
\* other than the reader's running offset, no item of cluster k or of a
\* later cluster is ever queued or written; when the restorer meets that
\* header it fails with a non-zero value, every item of the clusters
\* before k having been written by then; and the restore never ends with
\* status zero.
C7_BadHeaderStops ==
    rcorrupt.kind \in {"magic", "bytenr"} =>
        /\ \A o \in Handled : o < DamagedAt
        /\ "bad header in metadump image" \in rmsgs =>
              /\ rret # 0
              /\ \A i \in RecsOf(rin, "buf") :
                    rin[i].off < DamagedAt =>
                        \E j \in 1..Len(pwrites) :
                            pwrites[j].off = rin[i].off
        /\ rpc = "done" => rret # 0

\* C7 witness: the second cluster's header is damaged; the restore has
\* ended on it after writing the first cluster's items.
C7_Witness ==
    /\ rcorrupt.kind = "bytenr"
    /\ rcorrupt.at > 1
    /\ rpc = "done"
    /\ "bad header in metadump image" \in rmsgs
    /\ Len(pwrites) >= ITEMS_PER_CLUSTER

\* the input of the restore ends inside a cluster: in its header block, in
\* a payload or in its padding
EndsInsideCluster ==
    /\ rcorrupt.kind = "cut"
    /\ StreamLen(rin) < StreamLen(out)
    /\ \/ rin # << >> /\ rin[Len(rin)].kind = "partial"
       \/ out[rcorrupt.at].kind = "zero"

\* C11: a restore of an input that ends short inside a cluster (in the
\* 1024-byte header block, in an item payload or in the trailing padding)
\* returns a non-zero value.
C11_ShortInputFatal ==
    (rpc = "done" /\ EndsInsideCluster) => rret # 0

\* the restorer has written the super-block item and the target holds a
\* super-block at its place
SuperWritten ==
    /\ \E j \in 1..Len(pwrites) : pwrites[j].start = BTRFS_SUPER_INFO_OFFSET
    /\ image[BTRFS_SUPER_INFO_OFFSET].kind = "super"

\* C12: in both restore modes the super-block written to the target has
\* the METADUMP flag set and carries the checksum of its fixed-up
\* contents.
C12_SuperFlagAndCrc ==
    SuperWritten =>
        /\ "METADUMP" \in image[BTRFS_SUPER_INFO_OFFSET].flags
        /\ image[BTRFS_SUPER_INFO_OFFSET].csum
              = Crc32c(image[BTRFS_SUPER_INFO_OFFSET])

\* ------------------------------------------------------------------------
\* Properties of the block masker
\* ------------------------------------------------------------------------
\* the blocks (super-block and tree blocks) in the buffers of the work
\* items submitted so far: what copy_buffer returned for them
MaskedUnits ==
    UNION {{work[i].buffer.units[j] :
               j \in {k \in 1..Len(work[i].buffer.units) :
                         work[i].buffer.units[k].kind
                             \in {"super", "block"}}} :
              i \in 1..Len(work)}

\* C13: masking is idempotent: masking a block the dumper has already
\* masked (an empty block, a leaf, an internal node, the super-block)
\* gives that block again.
C13_MaskIdempotent ==
    \A u \in MaskedUnits : copy_buffer(u) = u

\* C13 witness: the submitted work holds the super-block, an empty block,
\* an internal node and a leaf whose checksum items and inline extents
\* the masker zeroed.
C13_Witness ==
    /\ \E u \in MaskedUnits : u.kind = "super"
    /\ \E u \in MaskedUnits : u.kind = "block" /\ u.items = << >>
    /\ \E u \in MaskedUnits : u.kind = "block" /\ u.level = 1
    /\ \E u \in MaskedUnits :
          /\ u.kind = "block" /\ u.level = 0
          /\ u.items # RawBlock(u.bytenr).items
          /\ u.slack # RawBlock(u.bytenr).slack

\* C14: after masking, the value in bytes [0, 4) of a block is the
\* finalised CRC32C of its bytes [32, len), and the rest of the checksum
\* field, bytes [4, 32), is zero.
C14_ChecksumLaw ==
    \A u \in MaskedUnits :
        /\ u.csum = Crc32c(u)
        /\ u.csum_tail = "zero"

\* BTRFS_SUPER_MIRROR_MAX: the super-block and its backup copies
BTRFS_SUPER_MIRROR_MAX == 3

\* the positioned writes of item payloads / of backup super-blocks
ItemWrites == {j \in 1..Len(pwrites) : ~pwrites[j].backup}
BackupWrites == {j \in 1..Len(pwrites) : pwrites[j].backup}

\* the sum of nritems over the cluster headers of the input
InputItems ==
    RangeSum([i \in 1..Len(rin) |-> IF rin[i].kind = "hdr"
                                    THEN rin[i].hdr.nritems ELSE 0],
             1, Len(rin))

\* C15: no item payload is ever written twice; and when a restore has
\* ended without error, the positioned writes of items are as many as the
\* sum of nritems over the input's clusters, every payload of the input
\* has been written (the super-block item among them, fixed up), and
\* beside them there are at most BTRFS_SUPER_MIRROR_MAX - 1 writes of
\* backup super-blocks.
C15_ItemCountPreserved ==
    /\ \A j, k \in ItemWrites :
          pwrites[j].off = pwrites[k].off => j = k
    /\ (rpc = "done" /\ rret = 0) =>
          /\ Cardinality(ItemWrites) = InputItems
          /\ \A i \in RecsOf(rin, "buf") :
                \E j \in ItemWrites : pwrites[j].off = rin[i].off
          /\ Cardinality(BackupWrites) <= BTRFS_SUPER_MIRROR_MAX - 1

\* C15 witness: a restore of an input of more than one cluster to a block
\* device has ended without error, a backup super-block written.
C15_Witness ==
    /\ rpc = "done" /\ rret = 0
    /\ Cardinality(RecsOf(rin, "hdr")) > 1
    /\ InputItems > ITEMS_PER_CLUSTER
    /\ BackupWrites # {}

\* ------------------------------------------------------------------------
\* Properties of the CRC helper
\* ------------------------------------------------------------------------
\* n to the power k
RECURSIVE Power(_, _)
Power(n, k) == IF k = 0 THEN 1 ELSE n * Power(n, k - 1)

HasSlash(str) == \E j \in 1..Len(str) : str[j] = SLASH

\* C16: the brute-force mode tests exactly the strings of the given
\* length over the bytes 32..127 that hold no '/' at any place: a
\* candidate under test never holds a '/', when the search ends it has
\* made as many tests as there are such strings, and every string printed
\* has the target checksum; the string the target was made from, if it
\* has no '/', has been printed by then.
C16_BruteForceExact ==
    /\ cpc \in {"test", "step"} =>
          /\ \A j \in 1..clength : Candidate[j] \in SPACE..DEL
          /\ ~HasSlash(Candidate)
    /\ \A k \in 1..Len(cprinted) :
          crc32c(SeedNot1, cprinted[k]) = cchecksum
    /\ cpc = "done" =>
          /\ ctests = Power(DEL - SPACE, clength)
          /\ (Len(cchecksum.data) = clength /\ ~HasSlash(cchecksum.data))
                => \E k \in 1..Len(cprinted) : cprinted[k] = cchecksum.data

\* ------------------------------------------------------------------------
\* Order of the restore workers' steps
\* ------------------------------------------------------------------------
\* the items a restore worker has taken and is fixing up or writing
InWork == {rwitem[w] : w \in {v \in RWorkers : rwpc[v] = "work"}}

\* the fixup and the write of the super-block item have been done
SuperFixed ==
    \E j \in ItemWrites : pwrites[j].start = BTRFS_SUPER_INFO_OFFSET

\* the input starts with the super-block item, as the dumper writes it
SuperFirst ==
    /\ rin # << >> /\ rin[1].kind = "hdr" /\ rin[1].hdr.nritems >= 1
    /\ rin[1].items[1].bytenr = BTRFS_SUPER_INFO_OFFSET

\* C17 as stated: whatever the order of the items in a cluster, no worker
\* starts the fixup or the write of a non-super item before the fixup of
\* the super-block item is complete.
C17_SuperFixupFirst ==
    \A a \in InWork :
        a.start # BTRFS_SUPER_INFO_OFFSET => SuperFixed

\* C17 amended: the one worker that main starts takes the items in input
\* order, one at a time, and only once the driver has filled the restore
\* descriptor from the super-block item; so when the super-block item is
\* the first of the input, its fixup and write are complete before the
\* fixup or the write of any other item starts.
C17_InputOrder ==
    /\ \A j, k \in ItemWrites : j < k => pwrites[j].off < pwrites[k].off
    /\ \A a \in InWork :
          /\ mdres.leafsize # 0
          /\ \A j \in ItemWrites : pwrites[j].off < a.off
          /\ (SuperFirst /\ a.start # BTRFS_SUPER_INFO_OFFSET)
                => SuperFixed

\* C17 witness: the worker holds a chunk-tree item of an input that
\* starts with the super-block item, whose fixup is done; the queue holds
\* a further item.
C17_Witness ==
    /\ SuperFirst
    /\ SuperFixed
    /\ rlist # << >>
    /\ \E a \in InWork :
          /\ a.start # BTRFS_SUPER_INFO_OFFSET
          /\ ~mdres.old_restore

\* the items a restore worker holds, from the take to the count-down
Taken == {rwitem[w] : w \in {v \in RWorkers : rwpc[v] \in {"work", "finish"}}}

\* the restore descriptor carries the parameters of a super-block
Populated ==
    /\ mdres.leafsize # 0
    /\ mdres.fsid # mdrestore_init(FALSE).fsid
    /\ mdres.uuid # mdrestore_init(FALSE).uuid
    /\ mdres.devid # mdrestore_init(FALSE).devid

\* the driver has read a super-block item: it is queued, taken or written
SuperSeen ==
    \/ \E j \in 1..Len(rlist) : rlist[j].start = BTRFS_SUPER_INFO_OFFSET
    \/ \E a \in Taken : a.start = BTRFS_SUPER_INFO_OFFSET
    \/ SuperFixed

\* C18: a restore worker holds or has written an item only when the
\* driver has seen a super-block item and has set node size, fsid, device
\* uuid and device id in the restore descriptor; the four are set
\* together.
C18_PopulatedBeforeTake ==
    /\ (Taken # {} \/ pwrites # << >>) => (SuperSeen /\ Populated)
    /\ mdres.leafsize # 0 => Populated

\* C18 witness: a tree block stood in the input before the super-block
\* item; it was queued while the descriptor was empty and has been
\* written, the first of all, with the descriptor filled.
C18_Witness ==
    /\ rcorrupt.kind = "swap"
    /\ pwrites # << >>
    /\ pwrites[1].start # BTRFS_SUPER_INFO_OFFSET
    /\ Populated

\* the stream offsets of the items in memory: queued or held by a worker
InMemory ==
    {rlist[j].off : j \in 1..Len(rlist)} \cup {a.off : a \in Taken}

C20_FlushAfterFailure ==
    (/\ dpc = "done"
     /\ msgs # {}
     /\ scen.fault.wfail = 0 /\ scen.fault.cfail = 0) =>
        /\ \A id \in 1..Len(work) :
              \E i \in RecsOf(out, "buf") : out[i].id = id
        /\ StreamLen(out) % BLOCK_SIZE = 0
        /\ RangeSum([i \in 1..Len(out) |-> IF out[i].kind = "hdr"
                                            THEN out[i].hdr.nritems ELSE 0],
                    1, Len(out))
              = Cardinality(RecsOf(out, "buf"))

\* ------------------------------------------------------------------------
\* The dump pool
\* ------------------------------------------------------------------------
\* the workers that hold work item id: taken and not yet counted ready
Holders(id) == {w \in Workers : wpc[w] \in {"work", "ready"} /\ witem[w] = id}

\* the places of the ingress queue that hold work item id
Queued(id) == {j \in 1..Len(list) : list[j] = id}

\* the writer has written or freed the buffer of work item id
WriterHad(id) ==
    \/ work[id].buffer = Freed
    \/ \E i \in RecsOf(out, "buf") : out[i].id = id

\* C21: every work item is with one party at a time: it is at most once
\* on the ingress queue or with at most one worker, never both; a queued
\* or just taken item has not been processed before; and the writer has
\* neither written nor freed the buffer of an item that is still queued
\* or with a worker.
C21_SingleOwner ==
    \A id \in 1..Len(work) :
        /\ Cardinality(Queued(id)) + Cardinality(Holders(id)) <= 1
        /\ (Queued(id) # {} \/ \E w \in Holders(id) : wpc[w] = "work")
              => work[id].buffer.kind = "plain"
        /\ WriterHad(id) => (Queued(id) = {} /\ Holders(id) = {})

\* C21 witness: two workers hold different items, a third item is queued
\* and the writer waits for them.
C21_Witness ==
    /\ call # NoCall
    /\ list # << >>
    /\ \E v, w \in Workers :
          /\ v # w
          /\ wpc[v] = "work" /\ wpc[w] = "ready"
          /\ witem[v] # witem[w]

\* the writer is in write_buffers' wait
WriterWaits == call # NoCall

\* C22: num_ready never exceeds num_items, and every wait of the writer
\* for num_ready = num_items ends: the cluster is written (or its write
\* fails) and the call returns.
C22_WriterWaitEnds ==
    /\ [](num_ready <= num_items)
    /\ (WriterWaits ~> ~WriterWaits)

\* C22 witness: with compression on, the writer waits while items of the
\* cluster are not yet counted ready.
C22_Witness ==
    /\ WriterWaits
    /\ scen.cmd.compress_level > 0
    /\ num_ready < num_items

\* C23: a worker of the dump pool or of the restore pool exits only when
\* its ingress queue is empty: once a worker has exited, no item is left
\* queued (after done is set nothing is added to the queue)
C23_ExitOnEmptyQueue ==
    /\ (\E w \in Workers : wpc[w] = "exit") => list = << >>
    /\ (\E w \in RWorkers : rwpc[w] = "exit") => rlist = << >>

\* the cluster headers of the output stream
Clusters == {i \in 1..Len(out) : out[i].kind = "hdr"}

\* a cluster write has failed
WriteFailed == scen.fault.wfail \in 1..nfwrite

\* C24: every cluster written holds between 1 and ITEMS_PER_CLUSTER items
\* and its index is the ITEMS_PER_CLUSTER entries of the one block; the
\* stream grows only inside write_buffers, entered from the final flush
\* or with ITEMS_PER_CLUSTER items counted; a count of ITEMS_PER_CLUSTER
\* outside write_buffers is left by a failed write only
C24_ClusterBounds ==
    /\ [](\A i \in Clusters :
            /\ out[i].hdr.nritems \in 1..ITEMS_PER_CLUSTER
            /\ Len(out[i].items) = ITEMS_PER_CLUSTER)
    /\ [][Len(out') > Len(out) =>
            /\ call # NoCall
            /\ call.fn = "final" \/ num_items >= ITEMS_PER_CLUSTER]_vars
    /\ [](num_items >= ITEMS_PER_CLUSTER /\ call = NoCall => WriteFailed)

\* a full cluster written by the final flush after the write of its
\* header failed
C24_Witness ==
    /\ WriteFailed
    /\ dpc = "done"
    /\ \E i \in Clusters : out[i].hdr.nritems = ITEMS_PER_CLUSTER

\* the steps of phase p of the dump: the add_extent calls of the walk, in
\* order (a record of the extent tree that is no tree block adds nothing)
StepsOf(p) ==
    IF p = "extents"
    THEN [i \in 1..scen.layout.n |->
            LET key == ExtentRec(scen.layout, scen.ns, i)
                num_bytes == IF key.type = "METADATA_ITEM" THEN key.offset
                             ELSE scen.ns
            IN IF key.tree THEN AddStep(key.objectid, num_bytes, 0)
               ELSE FailStep(0, "-")]
    ELSE IF p \in {"super", "log", "cache"} THEN Plan(p)
    ELSE << >>

Phases == <<"super", "extents", "log", "cache">>

\* the extents added so far: those of the phases passed and of the steps
\* of the current phase that are done
AddedSoFar ==
    LET rank == IF \E r \in 1..4 : Phases[r] = dpc
                THEN CHOOSE r \in 1..4 : Phases[r] = dpc ELSE 5
        upto(r) == IF r < rank THEN StepsOf(Phases[r])
                   ELSE IF r = rank
                   THEN SubSeq(StepsOf(Phases[r]), 1, didx - 1)
                   ELSE << >>
    IN SelectSeq(upto(1) \o upto(2) \o upto(3) \o upto(4),
                 LAMBDA st : st.op = "add")

\* the runs the coalescer has formed: the work items in submission order,
\* each with its buffer as it is or as it was written, then the pending
\* run
RunsSoFar ==
    [j \in 1..Len(work) |->
        LET written == {i \in 1..Len(out) :
                          out[i].kind = "buf" /\ out[i].id = j}
        IN [start |-> work[j].start, size |-> work[j].size,
            buffer |-> IF written = {} THEN work[j].buffer
                       ELSE out[CHOOSE i \in written : TRUE].data]]
    \o (IF pending_size # 0
        THEN <<[start |-> pending_start, size |-> pending_size,
                buffer |-> Freed]>>
        ELSE << >>)

\* nothing has failed so far
ErrorFree == err = 0 /\ msgs = {}

\* C25: at the end of an error-free dump the runs, in order, cover the
\* byte ranges of the added extents exactly once: both sequences have the same length in
\* bytes, every extent lies inside one run at the same distance from the
\* start in both, and a submitted run holds the extent's blocks read the
\* way of the extent's kind (unless its compression failed); an extent starts a new run exactly when it
\* differs in kind from the extent before it, does not start where that
\* one ends, or would take the run over MAX_PENDING_SIZE
C25_RunsCoverExtents ==
    ErrorFree /\ dpc = "done" =>
    \A A \in {AddedSoFar}, W \in {RunsSoFar} :
    \A cumA \in {[k \in 1..(Len(A) + 1) |->
                   RangeSum([i \in 1..Len(A) |-> A[i].size], 1, k - 1)]},
       cumW \in {[j \in 1..(Len(W) + 1) |->
                   RangeSum([i \in 1..Len(W) |-> W[i].size], 1, j - 1)]} :
    \A run \in {[k \in 1..Len(A) |->
                   {j \in 1..Len(W) : /\ cumW[j] <= cumA[k]
                                      /\ cumA[k + 1] <= cumW[j + 1]}]} :
       /\ cumA[Len(A) + 1] = cumW[Len(W) + 1]
       /\ \A k \in 1..Len(A) :
             \E j \in run[k] :
                /\ W[j].start + (cumA[k] - cumW[j]) = A[k].start
                /\ W[j].buffer.kind \in {"plain", "zlib"} =>
                      \A b \in 0..(A[k].size \div 4096 - 1) :
                         LET u == W[j].buffer.units[
                                     (cumA[k] - cumW[j]) \div 4096 + b + 1]
                         IN /\ u.bytenr = A[k].start + b * 4096
                            /\ u.kind = "data" <=> A[k].data # 0
       /\ \A k \in 2..Len(A) :
             (\E j \in 1..Len(W) : cumW[j] = cumA[k]) <=>
                \/ A[k].data # A[k - 1].data
                \/ A[k].start # A[k - 1].start + A[k - 1].size
                \/ \E j \in run[k - 1] :
                      cumA[k] - cumW[j] + A[k].size > MAX_PENDING_SIZE

\* an error-free dump has ended with a run of merged extents and a run
\* that the cap, not a gap, has ended
C25_Witness ==
    /\ ErrorFree /\ dpc = "done"
    /\ \E j \in 1..Len(work) : work[j].size > scen.ns
    /\ \E j \in 1..(Len(work) - 1) :
          work[j + 1].start = work[j].start + work[j].size

\* the chunk record c, of key offset off, is the one-stripe record that
\* names the device of super-block sb
OneStripe(c, off, sb) ==
    /\ c.num_stripes = 1
    /\ c.sub_stripes = 0
    /\ c.stripes = << [devid |-> sb.devid, dev_uuid |-> sb.dev_uuid,
                       offset |-> off] >>

Writes(w) == rwpc[w] = "work" /\ rwpc'[w] = "finish"

\* the payload of the item async as it decompresses: its units, each with
\* the address it belongs at
Payload(async) ==
    LET units == IF async.buffer.kind \in {"plain", "zlib"}
                 THEN async.buffer.units ELSE << >>
        lens == [j \in 1..Len(units) |-> UnitLen(units[j], scen.ns)]
    IN [j \in 1..Len(units) |->
           [addr |-> async.start + RangeSum(lens, 1, j - 1),
            unit |-> units[j]]]

\* the unit u, found at address a, is a leaf of the chunk tree that
\* carries its address and the filesystem's id
MatchingChunkLeaf(u, a) ==
    /\ u.kind = "block" /\ u.bytenr = a /\ u.fsid = mdres.fsid
    /\ u.owner = "CHUNK_TREE" /\ u.level = 0

C28_RunIsWholeBlocks ==
    /\ md_data = 0 => pending_size % scen.ns = 0
    /\ ~FlushOverruns

\* the restore driver is in wait_for_worker
Draining == rpc = "wait"

\* C29: the restore driver's wait for its worker returns after every
\* cluster, and a restore that has started ends
C29_RestoreEnds ==
    /\ Draining ~> ~Draining
    /\ (rpc # "off") ~> (rpc = "done")

\* C30: a restore worker whose processing of the item it holds fails
\* before the write (the decompression, or the fixup of the super-block)
\* writes nothing: the target and the list of writes issued stay as they
\* are
C30_FailedItemNotWritten ==
    [][\A w \in RWorkers :
          (Writes(w) /\ rwerr'[w] # 0) =>
             (image' = image /\ pwrites' = pwrites)]_vars

\* ------------------------------------------------------------------------
\* The odometer of the CRC helper
\* ------------------------------------------------------------------------
\* the candidate read as a number, buf[0] the lowest digit: an odometer
\* that only counts up visits no string twice
OdoRank(b) ==
    RangeSum([j \in 1..clength |-> b[j - 1] * Power(DEL + 1, j - 1)],
             1, clength)

\* the candidate under test is the all-127 string
AllDel == \A j \in 1..clength : cbuf[j - 1] = DEL

\* the helper moves on from one candidate to the next
OdoStep == cpc = "step" /\ cpc' = "test"

\* the parts of C31: no access outside the buffer; every step leads to a
\* string further on in the odometer's order; the step after the test of
\* the all-127 string is the end of the search
C31_NoAccessOutside == ~cover
C31_CountsUp == [][OdoStep => OdoRank(cbuf') > OdoRank(cbuf)]_vars
C31_EndsAfterAllDel == [][(cpc = "step" /\ AllDel) => cpc' = "done"]_vars

\* C31: the odometer of the brute-force search never reads or writes buf
\* at an index outside [0, length), visits each candidate string at most
\* once, and terminates after the all-127 string has been tested.
C31_OdometerInBounds ==
    /\ []C31_NoAccessOutside
    /\ C31_CountsUp
    /\ C31_EndsAfterAllDel

====
